---- MODULE Spec2Model ----
(***************************************************************************)
(* A model of the parse -> tree -> render pipeline of tree.lupinum.com:     *)
(* parseInput / splitInput (app/lib/parse-input, shipped inside             *)
(* generate-tree.ts), generateTree and its helpers, and the serializers and *)
(* dispatcher of app/lib/tree-formatters.ts.                                *)
(*                                                                          *)
(* Text is a sequence of UTF-16 code units, one element per unit; a unit is *)
(* written as a one-character string, and the four box-drawing units as     *)
(* "u251C", "u2500", "u2514", "u2502", and the grave accent as "u0060".     *)
(* Heap objects (FileStructure) are numbered: 0 is the root created by      *)
(* parseInput, i >= 1 the object splitInput made for the i-th kept line.    *)
(* Object identity (===) is equality of these numbers.                      *)
(* calls counts the renderer calls made on the tree since it was parsed.    *)
(* The object numbered i of the current tree is the (heapBase + i)-th one   *)
(* that parseInput and splitInput have created since the module was loaded  *)
(* (heapBase is that offset);                                                *)
(* allocated counts these objects; run counts the calls of parseInput on    *)
(* the input, and earlier keeps the tree that the call before returned.     *)
(* lastIndex is the lastIndex of newlineSplitterRegex, the one regular      *)
(* expression of the module that carries the g flag.                        *)
(***************************************************************************)
EXTENDS Integers, Sequences, FiniteSets, TLC

VARIABLES input, pc, nodes, path, next, error, call, out, calls,
          run, earlier, heapBase, allocated, lastIndex,
          treeStack, treeLines, visited,
          history, currentHistoryIndex, isUndoRedoOperation, storage, isClient,
          lastCall,
          tabs, activeTabId, uuids, tabCall

\* the variables of the while loop of generateTree when it is followed step
\* by step: its stack, its lines, and the items it has popped, in order
treeVars == <<treeStack, treeLines, visited>>

\* the refs of useTreeHistory, the localStorage of the browser, whether the
\* code runs in a browser (process.client), and the last call made to the
\* composable: the function, whether it was given a textarea, whether it
\* recorded a state, the index and the current state it found, and what it
\* returned
historyVars == <<history, currentHistoryIndex, isUndoRedoOperation, storage, isClient,
                 lastCall>>

\* the refs of useTreeTabs, the number of ids uuidv4 has handed out, and the
\* last call made to the composable
tabVars == <<tabs, activeTabId, uuids, tabCall>>

\* the variables that parseInput and the calls of the renderers leave alone
otherVars == <<treeVars, historyVars, tabVars>>

\* the variables of the parser and the renderers
treeCallVars == <<input, pc, nodes, path, next, error, call, out, calls,
                  run, earlier, heapBase, allocated, lastIndex>>

vars == <<treeCallVars, otherVars>>

----------------------------------------------------------------------------
(* Bounds of the model                                                      *)

\* the longest input has this many raw lines
MaxLines == 4

\* a caller renders one tree at most this many times
MaxCalls == 2

\* a caller parses one input at most this many times
MaxParses == 2

----------------------------------------------------------------------------
(* Text helpers                                                             *)

LF == "\n"
CR == "\r"
SP == " "

\* JavaScript's \s, restricted to the units the inputs use
IsSpace(c) == c \in {SP, "\t", LF, CR}

RECURSIVE Join(_, _)
\* Array.prototype.join: the elements of parts with sep between neighbours
Join(parts, sep) ==
    IF Len(parts) = 0 THEN <<>>
    ELSE IF Len(parts) = 1 THEN parts[1]
    ELSE parts[1] \o sep \o Join(Tail(parts), sep)

\* String.prototype.substring(from) for 0 <= from
Substring(s, from) ==
    IF from >= Len(s) THEN <<>> ELSE SubSeq(s, from + 1, Len(s))

\* the UTF-16 code unit of each unit the model writes
Code(c) ==
    CASE c = "\t" -> 9   [] c = LF -> 10   [] c = CR -> 13   [] c = SP -> 32
      [] c = "\"" -> 34  [] c = "&" -> 38  [] c = "'" -> 39  [] c = "*" -> 42
      [] c = "-" -> 45   [] c = "." -> 46  [] c = "/" -> 47  [] c = ":" -> 58
      [] c = ";" -> 59   [] c = "<" -> 60  [] c = "=" -> 61  [] c = ">" -> 62
      [] c = "?" -> 63   [] c = "[" -> 91  [] c = "\\" -> 92 [] c = "]" -> 93
      [] c = "u0060" -> 96  [] c = "a" -> 97  [] c = "b" -> 98  [] c = "c" -> 99
      [] c = "d" -> 100  [] c = "e" -> 101 [] c = "f" -> 102 [] c = "g" -> 103
      [] c = "h" -> 104  [] c = "i" -> 105 [] c = "l" -> 108 [] c = "m" -> 109
      [] c = "n" -> 110  [] c = "o" -> 111 [] c = "p" -> 112 [] c = "q" -> 113
      [] c = "r" -> 114  [] c = "s" -> 115 [] c = "t" -> 116 [] c = "u" -> 117
      [] c = "v" -> 118  [] c = "x" -> 120 [] c = "y" -> 121 [] c = "{" -> 123
      [] c = "|" -> 124  [] c = "}" -> 125
      [] c = "u2500" -> 9472 [] c = "u2502" -> 9474
      [] c = "u2514" -> 9492 [] c = "u251C" -> 9500
      [] c = "," -> 44   [] c = "U" -> 85  [] c = "T" -> 84  [] c = "F" -> 70
      [] c = "1" -> 49   [] c = "0" -> 48  [] c = "8" -> 56

RECURSIVE StrLess(_, _)
\* s < t as JavaScript compares strings: by code unit, a proper prefix first
StrLess(s, t) ==
    IF Len(t) = 0 THEN FALSE
    ELSE IF Len(s) = 0 THEN TRUE
    ELSE IF Code(s[1]) # Code(t[1]) THEN Code(s[1]) < Code(t[1])
    ELSE StrLess(Tail(s), Tail(t))

----------------------------------------------------------------------------
(* splitInput (parse-input)                                                 *)

RECURSIVE matchLines(_, _)
\* input.match(/[^\r\n]+/g) || []: the maximal non-empty runs free of CR, LF;
\* cur is the run being read
matchLines(text, cur) ==
    IF Len(text) = 0 THEN (IF Len(cur) = 0 THEN <<>> ELSE <<cur>>)
    ELSE IF text[1] \in {LF, CR}
         THEN (IF Len(cur) = 0 THEN <<>> ELSE <<cur>>) \o matchLines(Tail(text), <<>>)
         ELSE matchLines(Tail(text), Append(cur, text[1]))

\* a test that takes only the line without characters for whitespace-only
emptyLine(line) == Len(line) = 0

\* onlyWhitespaceRegex /^\s*$/
onlyWhitespace(line) == \A i \in 1..Len(line) : IsSpace(line[i])

RECURSIVE leadingSpaces(_)
\* the length of the (\s*) group of leadingWhitespaceAndBulletRegex: \s* is
\* greedy and what follows it may match empty, so it takes the whole run
leadingSpaces(line) ==
    IF Len(line) > 0 /\ IsSpace(line[1]) THEN 1 + leadingSpaces(Tail(line)) ELSE 0

\* the length of group 1, ((\s*)(?:-\s)?): the run plus an optional "- "
leadingLength(line) ==
    LET k == leadingSpaces(line)
    IN  IF Len(line) >= k + 2 /\ line[k + 1] = "-" /\ IsSpace(line[k + 2])
        THEN k + 2 ELSE k

\* line.replace(matchResult[1], ''): group 1 is a prefix of line, so its first
\* occurrence is at index 0 and the replacement drops that prefix
stripLeading(line) == Substring(line, leadingLength(line))

\* newlineSplitterRegex.exec(input) called once where the code calls
\* input.match: the one line found from the regex's lastIndex on, and lastIndex left
\* behind that line (0 when no line is found)
execOnce(text, from) ==
    LET found == matchLines(Substring(text, from), <<>>)
        skipped == CHOOSE k \in 0..Len(text) :
                       /\ \A j \in (from + 1)..(from + k) :
                              j <= Len(text) => text[j] \in {LF, CR}
                       /\ (from + k + 1 > Len(text)
                              \/ text[from + k + 1] \notin {LF, CR})
    IN  IF Len(found) = 0 THEN [lines |-> <<>>, lastIndex |-> 0]
        ELSE [lines |-> <<found[1]>>, lastIndex |-> from + skipped + Len(found[1])]

\* input.match(newlineSplitterRegex) || []: with the g flag, match sets
\* lastIndex to 0, collects every match from the start of the text, and
\* leaves lastIndex at 0: [lines, lastIndex]
globalMatch(text, from) == [lines |-> matchLines(text, <<>>), lastIndex |-> 0]

\* the lines splitInput keeps
keptLines(text) == SelectSeq(matchLines(text, <<>>), LAMBDA l : ~onlyWhitespace(l))

\* the FileStructure splitInput returns for one kept line
newStructure(line) ==
    [name |-> stripLeading(line), children |-> <<>>,
     indentCount |-> leadingSpaces(line), parent |-> <<>>]

\* the filter and the map of splitInput, on the lines that were matched
splitLines(lines) ==
    LET kept == SelectSeq(lines, LAMBDA l : ~onlyWhitespace(l))
    IN  [i \in 1..Len(kept) |-> newStructure(kept[i])]

\* splitInput: one FileStructure per kept line, in order
splitInput(text) ==
    LET lines == keptLines(text)
    IN  [i \in 1..Len(lines) |-> newStructure(lines[i])]

----------------------------------------------------------------------------
(* The inputs                                                               *)

\* the raw lines an input is made of: "a" at indents 0 to 3, a node named
\* like the root, a name that ends in a slash and a space, a bullet with
\* nothing after it (an empty name at indent 1) and a blank line
RawLines ==
    { <<"a">>, <<SP, "a">>, <<SP, SP, "a">>, <<SP, SP, SP, "a">>,
      <<".">>,
      <<"b", "/", SP>>,
      <<SP, "-", SP>>,
      <<SP, SP>> }

\* the texts: up to MaxLines raw lines joined by line feeds ('' for none)
Texts ==
    { Join(ls, <<LF>>) : ls \in UNION { [1..n -> RawLines] : n \in 0..MaxLines } }

\* what a caller may pass to parseInput: a string, or null, undefined, a number
Inputs ==
    { [type |-> "string", text |-> t] : t \in Texts }
      \cup { [type |-> t, text |-> <<>>] : t \in {"null", "undefined", "number"} }

\* the units of the names that exercise the escaping of the serializers: the
\* five units XML escapes, the semicolon that ends an entity, and a letter
NameUnits == {"&", "<", ">", "\"", "'", ";", "a"}

\* the longest name made of NameUnits
MaxName == 3

\* names of up to MaxName units, and names that already read as entities
SpecialNames ==
    UNION { [1..n -> NameUnits] : n \in 1..MaxName }
      \cup { <<"&", "a", "m", "p", ";">>, <<"&", "l", "t", ";">>,
             <<"&", "a", "m", "p", ";", "l", "t", ";">> }

\* names for trees of two nodes: with and without 'dir' in them, the root's
\* name, the units XML escapes, the two units JSON escapes
PairNames ==
    { <<"d", "i", "r">>, <<"a", "d", "i", "r", "s">>, <<"a">>, <<".">>,
      <<"<", "&">>, <<"\\", "\"">> }

\* the texts of the second family: one line that is a special name, or two
\* lines that are siblings, or parent and child
NameTexts ==
    SpecialNames
      \cup { m \o <<LF>> \o n : m \in PairNames, n \in PairNames }
      \cup { m \o <<LF, SP>> \o n : m \in PairNames, n \in PairNames }

NameInputs ==
    { [type |-> "string", text |-> t] : t \in NameTexts }
      \cup { [type |-> "null", text |-> <<>>] }

----------------------------------------------------------------------------
(* parseInput (parse-input)                                                 *)

NoError == [kind |-> "none", name |-> <<>>]
NoCall == [fn |-> "none", structure |-> "", format |-> "", options |-> <<>>]
NoOut == [ok |-> FALSE, text |-> <<>>, error |-> "", about |-> ""]
NoTree == [nodes |-> <<>>, heapBase |-> 0]

\* an input that is not a string at all
notAString(value) == value.type # "string"

\* !input for the inputs of the model: null, undefined and '' are falsy
falsy(value) ==
    value.type \in {"null", "undefined"} \/ (value.type = "string" /\ Len(value.text) = 0)

\* !input || typeof input !== 'string'
notNonEmptyString(value) == falsy(value) \/ value.type # "string"

\* a root of indentCount 0, which an item at the left margin pops
rootAtMargin == [name |-> <<".">>, children |-> <<>>, indentCount |-> 0, parent |-> <<>>]

\* the root parseInput creates
rootNode == [name |-> <<".">>, children |-> <<>>, indentCount |-> -1, parent |-> <<>>]

\* the stack top, path[path.length - 1]
top(stack) == stack[Len(stack)]

RECURSIVE popWhileGreater(_, _, _)
\* the pops with > for >=: an item is not popped by an item of its own indentCount
popWhileGreater(heap, stack, indent) ==
    IF Len(stack) > 0 /\ heap[top(stack)].indentCount > indent
    THEN popWhileGreater(heap, SubSeq(stack, 1, Len(stack) - 1), indent)
    ELSE stack

RECURSIVE popWhile(_, _, _)
\* while (path.length > 0 && path[path.length - 1].indentCount >= s.indentCount) path.pop()
popWhile(heap, stack, indent) ==
    IF Len(stack) > 0 /\ heap[top(stack)].indentCount >= indent
    THEN popWhile(heap, SubSeq(stack, 1, Len(stack) - 1), indent)
    ELSE stack

\* the jump test with the limit one too large
badJumpOffByOne(indent, lastIndent) == indent > lastIndent + 3 /\ lastIndent # -1

\* no jump test at all
noJump(indent, lastIndent) == FALSE

\* the jump test without the exception for the root on top of the stack
badJumpAtRoot(indent, lastIndent) == indent > lastIndent + 2

\* the jump test of the loop body
badJump(indent, lastIndent) == indent > lastIndent + 2 /\ lastIndent # -1

\* the child put first (unshift) where the code puts it last
attachFirst(heap, parent, s) ==
    [heap EXCEPT ![parent].children = <<s>> \o @, ![s].parent = <<parent>>]

\* parent.children.push(s); s.parent = parent
attach(heap, parent, s) ==
    [heap EXCEPT ![parent].children = Append(@, s), ![s].parent = <<parent>>]

----------------------------------------------------------------------------
(* generateTree and its helpers (generate-tree)                             *)

\* LINE_STRINGS (line-strings): the four fragments of each charset
LINE_STRINGS ==
    [ ascii |-> [CHILD      |-> <<"|", "-", "-", SP>>,
                 LAST_CHILD |-> <<"u0060", "-", "-", SP>>,
                 DIRECTORY  |-> <<"|", SP, SP, SP>>,
                 EMPTY      |-> <<SP, SP, SP, SP>>],
      utf8  |-> [CHILD      |-> <<"u251C", "u2500", "u2500", SP>>,
                 LAST_CHILD |-> <<"u2514", "u2500", "u2500", SP>>,
                 DIRECTORY  |-> <<"u2502", SP, SP, SP>>,
                 EMPTY      |-> <<SP, SP, SP, SP>>] ]

\* LINE_STRINGS[charset] is defined for 'ascii' and 'utf-8' alone
knownCharset(charset) == charset \in {"ascii", "utf-8"}

lineStrings(charset) == IF charset = "ascii" THEN LINE_STRINGS.ascii ELSE LINE_STRINGS.utf8

\* defaultOptions
defaultOptions ==
    [charset |-> "utf-8", trailingDirSlash |-> FALSE, fullPath |-> FALSE, rootDot |-> TRUE]

\* { ...a, ...b }: the keys of both, b's value where both have the key
spread(a, b) ==
    [k \in DOMAIN a \cup DOMAIN b |-> IF k \in DOMAIN b THEN b[k] ELSE a[k]]

\* options.key for a boolean key: undefined is falsy
flag(options, key) == key \in DOMAIN options /\ options[key]

\* the test made against the first child where the code takes the last
isFirstChild(heap, structure) ==
    IF heap[structure].parent = <<>> \/ Len(heap[heap[structure].parent[1]].children) = 0
    THEN FALSE
    ELSE heap[heap[structure].parent[1]].children[1] = structure

\* isLastChild
isLastChild(heap, structure) ==
    IF heap[structure].parent = <<>> \/ Len(heap[heap[structure].parent[1]].children) = 0
    THEN FALSE
    ELSE LET siblings == heap[heap[structure].parent[1]].children
         IN  siblings[Len(siblings)] = structure

\* the test made on the last unit alone, as name.endsWith('/') would
endsWithSlash(name) == Len(name) > 0 /\ name[Len(name)] = "/"

\* /\/\s*$/.test(name): a slash followed by nothing but whitespace
endsInSlash(name) ==
    \E i \in 1..Len(name) :
        name[i] = "/" /\ \A j \in (i + 1)..Len(name) : IsSpace(name[j])

RECURSIVE namesUpToDot(_, _, _)
\* while (current && current.name !== '.') { pathParts.unshift(current.name);
\* current = current.parent }, current being <<>> for null
namesUpToDot(heap, current, pathParts) ==
    IF current # <<>> /\ heap[current[1]].name # <<".">>
    THEN namesUpToDot(heap, heap[current[1]].parent, <<heap[current[1]].name>> \o pathParts)
    ELSE pathParts

\* getName
getName(heap, structure, options) ==
    LET node == heap[structure]
        slash == IF flag(options, "trailingDirSlash") /\ Len(node.children) > 0
                     /\ ~endsInSlash(node.name)
                 THEN <<"/">> ELSE <<>>
        pathParts == IF flag(options, "fullPath") /\ node.parent # <<>>
                     THEN namesUpToDot(heap, node.parent, <<>>) ELSE <<>>
        prefix == IF Len(pathParts) > 0 THEN Join(pathParts, <<"/">>) \o <<"/">> ELSE <<>>
    IN  prefix \o node.name \o slash

\* nothing chopped off, whatever options.rootDot is
chopNothing(options, lines) == 0

\* the units getAsciiLine chops off: options.rootDot ? 0 : lines.CHILD.length
chopLength(options, lines) == IF flag(options, "rootDot") THEN 0 ELSE Len(lines.CHILD)

RECURSIVE ancestorChunks(_, _, _, _)
\* while (current && current.parent) { chunks.unshift(...); current = current.parent }
ancestorChunks(heap, current, lines, chunks) ==
    IF current # <<>> /\ heap[current[1]].parent # <<>>
    THEN ancestorChunks(heap, heap[current[1]].parent, lines,
             (IF isLastChild(heap, current[1]) THEN lines.EMPTY ELSE lines.DIRECTORY)
                 \o chunks)
    ELSE chunks

\* getAsciiLine with the special case of the root put before the test of the
\* charset
getAsciiLineRootFirst(heap, structure, options) ==
    LET charset == IF "charset" \in DOMAIN options /\ options.charset # ""
                   THEN options.charset ELSE "utf-8"
        lines == lineStrings(charset)
        node == heap[structure]
    IN  IF node.parent = <<>>
        THEN [throws |-> FALSE, hasLine |-> flag(options, "rootDot"),
              line |-> IF flag(options, "rootDot") THEN node.name ELSE <<>>,
              charset |-> charset]
        ELSE IF ~knownCharset(charset)
        THEN [throws |-> TRUE, hasLine |-> FALSE, line |-> <<>>, charset |-> charset]
        ELSE LET chunks == (IF isLastChild(heap, structure)
                            THEN lines.LAST_CHILD ELSE lines.CHILD)
                               \o getName(heap, structure, options)
                 all == ancestorChunks(heap, node.parent, lines, chunks)
             IN  [throws |-> FALSE, hasLine |-> TRUE,
                  line |-> Substring(all, chopLength(options, lines)),
                  charset |-> charset]

\* getAsciiLine: [throws, line] with line <<>> for null (see hasLine)
getAsciiLine(heap, structure, options) ==
    LET charset == IF "charset" \in DOMAIN options /\ options.charset # "" 
                   THEN options.charset ELSE "utf-8"
        lines == lineStrings(charset)
        node == heap[structure]
    IN  IF ~knownCharset(charset)
        THEN [throws |-> TRUE, hasLine |-> FALSE, line |-> <<>>, charset |-> charset]
        ELSE IF node.parent = <<>>
        THEN [throws |-> FALSE, hasLine |-> flag(options, "rootDot"),
              line |-> IF flag(options, "rootDot") THEN node.name ELSE <<>>,
              charset |-> charset]
        ELSE LET chunks == (IF isLastChild(heap, structure)
                            THEN lines.LAST_CHILD ELSE lines.CHILD)
                               \o getName(heap, structure, options)
                 all == ancestorChunks(heap, node.parent, lines, chunks)
             IN  [throws |-> FALSE, hasLine |-> TRUE,
                  line |-> Substring(all, chopLength(options, lines)),
                  charset |-> charset]

\* the children pushed first to last
sameOrder(seq) == seq

\* the loop started one too low, at item.children.length - 2
reversedFromSecondLast(seq) == [i \in 1..(Len(seq) - 1) |-> seq[Len(seq) - i]]

\* for (let i = item.children.length - 1; i >= 0; i--) stack.push(item.children[i])
reversed(seq) == [i \in 1..Len(seq) |-> seq[Len(seq) + 1 - i]]

RECURSIVE treeLoop(_, _, _, _)
\* the while loop of generateTree: [throws, lines, charset]
treeLoop(heap, stack, lines, options) ==
    IF Len(stack) = 0 THEN [throws |-> FALSE, lines |-> lines, charset |-> ""]
    ELSE LET item == top(stack)
             rest == SubSeq(stack, 1, Len(stack) - 1)
             got == getAsciiLine(heap, item, options)
         IN  IF got.throws
             THEN [throws |-> TRUE, lines |-> <<>>, charset |-> got.charset]
             ELSE treeLoop(heap, rest \o reversed(heap[item].children),
                           IF got.hasLine THEN Append(lines, got.line) ELSE lines,
                           options)

\* the result of a call: a text, or an error and no text
Returned(text) == [ok |-> TRUE, text |-> text, error |-> "", about |-> ""]
Thrown(message, about) == [ok |-> FALSE, text |-> <<>>, error |-> message, about |-> about]

\* generateTree(structure, options) on the tree rooted at object 0
generateTree(heap, options) ==
    LET mergedOptions == spread(defaultOptions, options)
        done == treeLoop(heap, <<0>>, <<>>, mergedOptions)
    IN  IF done.throws THEN Thrown("Unknown charset: ", done.charset)
        ELSE Returned(Join(done.lines, <<LF>>))

----------------------------------------------------------------------------
(* The string literals of tree-formatters, unit by unit                     *)

LITnull == <<"n", "u", "l", "l">>
LITroot == <<"r", "o", "o", "t">>
LITname == <<"n", "a", "m", "e">>
LITtype == <<"t", "y", "p", "e">>
LITfile == <<"f", "i", "l", "e">>
LITdirectory == <<"d", "i", "r", "e", "c", "t", "o", "r", "y">>
LITchildren == <<"c", "h", "i", "l", "d", "r", "e", "n">>
LITfiles == <<"f", "i", "l", "e", "s">>
LITdirectories == <<"d", "i", "r", "e", "c", "t", "o", "r", "i", "e", "s">>
LITpath == <<"p", "a", "t", "h">>
LITamp == <<"&", "a", "m", "p", ";">>
LITlt == <<"&", "l", "t", ";">>
LITgt == <<"&", "g", "t", ";">>
LITquot == <<"&", "q", "u", "o", "t", ";">>
LITapos == <<"&", "a", "p", "o", "s", ";">>
LITfileOpen == <<"<", "f", "i", "l", "e", SP, "n", "a", "m", "e", "=", "\"">>
LITfileClose == <<"\"", SP, "/", ">">>
LITdirOpen == <<"<", "d", "i", "r", "e", "c", "t", "o", "r", "y", SP, "n",
    "a", "m", "e", "=", "\"">>
LITdirOpenEnd == <<"\"", ">">>
LITdirClose == <<"<", "/", "d", "i", "r", "e", "c", "t", "o", "r", "y", ">">>
LITxmlDecl == <<"<", "?", "x", "m", "l", SP, "v", "e", "r", "s", "i", "o",
    "n", "=", "\"", "1", ".", "0", "\"", SP, "e", "n", "c", "o", "d", "i",
    "n", "g", "=", "\"", "U", "T", "F", "-", "8", "\"", "?", ">">>

----------------------------------------------------------------------------
(* JSON.stringify(value, null, 2) on the values the serializers build.      *)
(* A value is [t |-> "null"], [t |-> "string", s |-> text],                 *)
(* [t |-> "array", items |-> values] or [t |-> "object", entries |->        *)
(* <<key, value>> pairs in property order].                                 *)

JNull == [t |-> "null"]
JString(s) == [t |-> "string", s |-> s]
JArray(items) == [t |-> "array", items |-> items]
JObject(entries) == [t |-> "object", entries |-> entries]

Spaces(n) == [i \in 1..n |-> SP]

RECURSIVE Flatten(_)
\* the concatenation of a sequence of texts
Flatten(parts) == IF Len(parts) = 0 THEN <<>> ELSE parts[1] \o Flatten(Tail(parts))

\* JSON's quote(): the names of the model hold no control characters, so the
\* double quote and the backslash are the units it escapes
Quote(s) ==
    <<"\"">> \o Flatten([i \in 1..Len(s) |->
                  IF s[i] \in {"\"", "\\"} THEN <<"\\", s[i]>> ELSE <<s[i]>>])
        \o <<"\"">>

RECURSIVE Stringify(_, _)
\* the text of value, printed at nesting depth indent (in spaces)
Stringify(value, indent) ==
    CASE value.t = "null" -> LITnull
      [] value.t = "string" -> Quote(value.s)
      [] value.t = "array" ->
           IF Len(value.items) = 0 THEN <<"[", "]">>
           ELSE <<"[", LF>>
                \o Join([i \in 1..Len(value.items) |->
                            Spaces(indent + 2) \o Stringify(value.items[i], indent + 2)],
                        <<",", LF>>)
                \o <<LF>> \o Spaces(indent) \o <<"]">>
      [] value.t = "object" ->
           IF Len(value.entries) = 0 THEN <<"{", "}">>
           ELSE <<"{", LF>>
                \o Join([i \in 1..Len(value.entries) |->
                            Spaces(indent + 2) \o Quote(value.entries[i][1]) \o <<":", SP>>
                              \o Stringify(value.entries[i][2], indent + 2)],
                        <<",", LF>>)
                \o <<LF>> \o Spaces(indent) \o <<"}">>

\* result[key] = value on an object whose keys are not array indices: a new
\* key goes last, an existing key keeps its place and takes the new value
SetProperty(entries, key, value) ==
    IF \E i \in 1..Len(entries) : entries[i][1] = key
    THEN [i \in 1..Len(entries) |->
             IF entries[i][1] = key THEN <<key, value>> ELSE entries[i]]
    ELSE Append(entries, <<key, value>>)

RECURSIVE skipWhitespace(_, _)
\* the index of the first unit at or after i that is not JSON whitespace
skipWhitespace(text, i) ==
    IF i <= Len(text) /\ text[i] \in {SP, "\t", LF, CR}
    THEN skipWhitespace(text, i + 1) ELSE i

RECURSIVE parseString(_, _, _)
\* the string whose opening quote is just before i: [s, next]; of the escapes
\* it reads the two Quote writes, \" and \\
parseString(text, i, acc) ==
    IF text[i] = "\"" THEN [s |-> acc, next |-> i + 1]
    ELSE IF text[i] = "\\" THEN parseString(text, i + 2, Append(acc, text[i + 1]))
    ELSE parseString(text, i + 1, Append(acc, text[i]))

RECURSIVE parseValue(_, _), parseMembers(_, _, _)
\* the JSON value that starts at or after i: [value, next]; the values read
\* are null, strings and objects, the ones formatNestedJson prints
parseValue(text, i) ==
    LET j == skipWhitespace(text, i)
    IN  IF text[j] = "n" THEN [value |-> JNull, next |-> j + Len(LITnull)]
        ELSE IF text[j] = "\""
        THEN LET str == parseString(text, j + 1, <<>>)
             IN  [value |-> JString(str.s), next |-> str.next]
        ELSE LET k == skipWhitespace(text, j + 1)
             IN  IF text[k] = "}" THEN [value |-> JObject(<<>>), next |-> k + 1]
                 ELSE parseMembers(text, k, <<>>)
\* the members of an object from the opening quote of a key at i on; a key
\* read twice keeps its first place and takes the later value
parseMembers(text, i, entries) ==
    LET key == parseString(text, i + 1, <<>>)
        colon == skipWhitespace(text, key.next)
        member == parseValue(text, colon + 1)
        read == SetProperty(entries, key.s, member.value)
        after == skipWhitespace(text, member.next)
    IN  IF text[after] = ","
        THEN parseMembers(text, skipWhitespace(text, after + 1), read)
        ELSE [value |-> JObject(read), next |-> after + 1]

\* JSON.parse(text) for a text that is one JSON value
JSONparse(text) == parseValue(text, 1).value

----------------------------------------------------------------------------
(* The serializers (tree-formatters)                                        *)

RECURSIVE fullPathParts(_, _, _)
\* the loop of getFullPath, current being <<>> for null
fullPathParts(heap, current, pathParts) ==
    IF current # <<>> /\ heap[current[1]].name # <<".">>
    THEN fullPathParts(heap, heap[current[1]].parent, <<heap[current[1]].name>> \o pathParts)
    ELSE pathParts

\* getFullPath
getFullPath(heap, item) == Join(fullPathParts(heap, <<item>>, <<>>), <<"/">>)

\* name.includes('dir')
includesDir(name) ==
    \E i \in 1..(Len(name) - 2) : SubSeq(name, i, i + 2) = <<"d", "i", "r">>

RECURSIVE createNestedObject(_, _), nestedChildren(_, _, _, _)
\* createNestedObject of formatNestedJson
createNestedObject(heap, item) ==
    IF Len(heap[item].children) = 0
    THEN (IF includesDir(heap[item].name) THEN JObject(<<>>) ELSE JNull)
    ELSE JObject(nestedChildren(heap, heap[item].children, 1, <<>>))
\* for (const child of item.children) result[child.name] = createNestedObject(child)
nestedChildren(heap, kids, i, result) ==
    IF i > Len(kids) THEN result
    ELSE nestedChildren(heap, kids, i + 1,
             SetProperty(result, heap[kids[i]].name, createNestedObject(heap, kids[i])))

\* rootObj of formatNestedJson
nestedRootObj(heap) == JObject(<<<<heap[0].name, createNestedObject(heap, 0)>>>>)

\* formatNestedJson
formatNestedJson(heap) == Stringify(nestedRootObj(heap), 0)

RECURSIVE createObjectWithChildren(_, _)
\* createObjectWithChildren of formatArrayJson
createObjectWithChildren(heap, item) ==
    LET node == heap[item]
        base == << <<LITname, JString(IF node.name = <<".">> THEN LITroot ELSE node.name)>>,
                   <<LITtype, JString(IF Len(node.children) > 0 THEN LITdirectory ELSE LITfile)>> >>
    IN  IF Len(node.children) > 0
        THEN JObject(Append(base,
                 <<LITchildren, JArray([i \in 1..Len(node.children) |->
                                   createObjectWithChildren(heap, node.children[i])])>>))
        ELSE JObject(base)

\* formatArrayJson
formatArrayJson(heap) == Stringify(createObjectWithChildren(heap, 0), 0)

RECURSIVE flatProcessItem(_, _, _), flatChildren(_, _, _, _)
\* processItem of formatFlatJson; lists is [files, directories], of paths
flatProcessItem(heap, item, lists) ==
    LET node == heap[item]
        pushed == IF node.name # <<".">>
                  THEN (IF Len(node.children) > 0
                        THEN [lists EXCEPT !.directories = Append(@, getFullPath(heap, item))]
                        ELSE [lists EXCEPT !.files = Append(@, getFullPath(heap, item))])
                  ELSE lists
    IN  flatChildren(heap, node.children, 1, pushed)
\* item.children.forEach(child => processItem(child))
flatChildren(heap, kids, i, lists) ==
    IF i > Len(kids) THEN lists
    ELSE flatChildren(heap, kids, i + 1, flatProcessItem(heap, kids[i], lists))

\* the object formatFlatJson prints, from its two lists of paths
flatObject(lists) ==
    JObject(<< <<LITfiles, JArray([i \in 1..Len(lists.files) |->
                     JObject(<< <<LITpath, JString(lists.files[i])>>,
                                <<LITtype, JString(LITfile)>> >>)])>>,
               <<LITdirectories, JArray([i \in 1..Len(lists.directories) |->
                     JObject(<< <<LITpath, JString(lists.directories[i])>> >>)])>> >>)

\* formatFlatJson
formatFlatJson(heap) ==
    Stringify(flatObject(flatProcessItem(heap, 0, [files |-> <<>>, directories |-> <<>>])), 0)

RECURSIVE jsonToYaml(_, _)
\* jsonToYaml on the entries of an object
jsonToYaml(entries, indent) ==
    Flatten([i \in 1..Len(entries) |->
        IF entries[i][2].t = "null"
        THEN Spaces(indent) \o entries[i][1] \o <<":", SP>> \o LITnull \o <<LF>>
        ELSE IF entries[i][2].t = "object"
        THEN Spaces(indent) \o entries[i][1] \o <<":", LF>>
               \o jsonToYaml(entries[i][2].entries, indent + 2)
        ELSE <<>>])

\* formatYaml with the parsed object printed under its own key, not 'root'
formatYamlOwnKey(heap) == jsonToYaml(JSONparse(formatNestedJson(heap)).entries, 0)

\* formatYaml: obj is JSON.parse of the text of formatNestedJson, originalKey
\* is Object.keys(obj)[0], the key of its first entry
formatYaml(heap) ==
    LET jsonString == formatNestedJson(heap)
        obj == JSONparse(jsonString)
        rootObj == << <<LITroot, obj.entries[1][2]>> >>
    IN  jsonToYaml(rootObj, 0)

\* String.prototype.replace(/c/g, by) for a one-unit pattern
replaceAll(s, c, by) == Flatten([i \in 1..Len(s) |-> IF s[i] = c THEN by ELSE <<s[i]>>])

\* the five replace calls with the ampersand replaced last, not first
escapeXmlAmpLast(name) ==
    replaceAll(replaceAll(replaceAll(replaceAll(replaceAll(name,
        "<", LITlt), ">", LITgt), "\"", LITquot), "'", LITapos), "&", LITamp)

\* the five replace calls of createXmlElement, in their order
escapeXml(name) ==
    replaceAll(replaceAll(replaceAll(replaceAll(replaceAll(name,
        "&", LITamp), "<", LITlt), ">", LITgt), "\"", LITquot), "'", LITapos)

RECURSIVE createXmlElement(_, _, _)
\* createXmlElement of formatXml
createXmlElement(heap, item, indent) ==
    LET node == heap[item]
        name == IF node.name = <<".">> THEN LITroot ELSE node.name
        escapedName == escapeXml(name)
    IN  IF Len(node.children) = 0
        THEN Spaces(indent) \o LITfileOpen \o escapedName \o LITfileClose \o <<LF>>
        ELSE Spaces(indent) \o LITdirOpen \o escapedName \o LITdirOpenEnd \o <<LF>>
               \o Flatten([i \in 1..Len(node.children) |->
                      createXmlElement(heap, node.children[i], indent + 2)])
               \o Spaces(indent) \o LITdirClose \o <<LF>>

\* formatXml
formatXml(heap) == LITxmlDecl \o <<LF>> \o createXmlElement(heap, 0, 0)

RECURSIVE dotProcessItem(_, _, _), dotChildren(_, _, _, _)
\* processItem of formatDot
dotProcessItem(heap, item, paths) ==
    dotChildren(heap, heap[item].children, 1,
        IF heap[item].name # <<".">> THEN Append(paths, getFullPath(heap, item)) ELSE paths)
\* item.children.forEach(child => processItem(child))
dotChildren(heap, kids, i, paths) ==
    IF i > Len(kids) THEN paths
    ELSE dotChildren(heap, kids, i + 1, dotProcessItem(heap, kids[i], paths))

RECURSIVE insertSorted(_, _)
\* s put before the first element of the sorted sequence that is greater
insertSorted(sorted, s) ==
    IF Len(sorted) = 0 THEN <<s>>
    ELSE IF StrLess(s, sorted[1]) THEN <<s>> \o sorted
    ELSE <<sorted[1]>> \o insertSorted(Tail(sorted), s)

RECURSIVE sortStrings(_)
\* Array.prototype.sort() with no comparator: ascending by code unit
sortStrings(seq) ==
    IF Len(seq) = 0 THEN <<>>
    ELSE insertSorted(sortStrings(SubSeq(seq, 1, Len(seq) - 1)), seq[Len(seq)])

\* formatDot
formatDot(heap) == Join(sortStrings(dotProcessItem(heap, 0, <<>>)), <<LF>>)

RECURSIVE createMarkdownList(_, _, _)
\* createMarkdownList of formatMarkdown
createMarkdownList(heap, item, indent) ==
    LET node == heap[item]
        below(by) == Flatten([i \in 1..Len(node.children) |->
                         createMarkdownList(heap, node.children[i], by)])
    IN  IF node.name = <<".">> THEN below(indent)
        ELSE Spaces(indent) \o <<"*", SP>> \o node.name
               \o (IF Len(node.children) > 0 THEN <<"/">> ELSE <<>>) \o <<LF>>
               \o below(indent + 2)

\* formatMarkdown
formatMarkdown(heap) == createMarkdownList(heap, 0, 0)

\* the dispatcher with the two spreads written the other way round,
\* { charset: 'ascii', ...options }, so that the caller's charset wins
formatTreeCallerWins(heap, format, options) ==
    CASE format = "ascii" -> generateTree(heap, spread([charset |-> "ascii"], options))
      [] format = "utf-8" -> generateTree(heap, spread([charset |-> "utf-8"], options))
      [] format = "json-nested" -> Returned(formatNestedJson(heap))
      [] format = "json-array" -> Returned(formatArrayJson(heap))
      [] format = "json-flat" -> Returned(formatFlatJson(heap))
      [] format = "yaml" -> Returned(formatYaml(heap))
      [] format = "xml" -> Returned(formatXml(heap))
      [] format = "dot" -> Returned(formatDot(heap))
      [] format = "markdown" -> Returned(formatMarkdown(heap))
      [] OTHER -> generateTree(heap, options)

\* the format ids: the nine of FormatType and one that is none of them
FormatIds ==
    {"ascii", "utf-8", "json-nested", "json-array", "json-flat", "yaml", "xml",
     "dot", "markdown", "unknown-format"}

\* formatTree(structure, format, options) on the tree rooted at object 0
formatTree(heap, format, options) ==
    CASE format = "ascii" -> generateTree(heap, spread(options, [charset |-> "ascii"]))
      [] format = "utf-8" -> generateTree(heap, spread(options, [charset |-> "utf-8"]))
      [] format = "json-nested" -> Returned(formatNestedJson(heap))
      [] format = "json-array" -> Returned(formatArrayJson(heap))
      [] format = "json-flat" -> Returned(formatFlatJson(heap))
      [] format = "yaml" -> Returned(formatYaml(heap))
      [] format = "xml" -> Returned(formatXml(heap))
      [] format = "dot" -> Returned(formatDot(heap))
      [] format = "markdown" -> Returned(formatMarkdown(heap))
      [] OTHER -> generateTree(heap, options)

\* the options a caller passes: each key absent or set, 'invalid' being no
\* charset, and the charset spelt 'utf8', which is none either
OptionSets ==
    { spread(spread(c, t), spread(f, r)) :
        c \in {<<>>} \cup { [charset |-> v] : v \in {"ascii", "invalid"} },
        t \in {<<>>, [trailingDirSlash |-> TRUE]},
        f \in {<<>>, [fullPath |-> TRUE]},
        r \in {<<>>, [rootDot |-> FALSE]} }
      \cup { spread([charset |-> "utf8"], r) : r \in {<<>>, [rootDot |-> FALSE]} }

\* nothing but the parser and the renderers has run
NoWalk == treeStack = <<>> /\ treeLines = <<>> /\ visited = <<>>
\* the refs of useTreeHistory as the composable creates them, an empty
\* localStorage, and no call made
NoHistoryCall == [fn |-> "none", textarea |-> FALSE, recorded |-> FALSE,
                  index |-> -1, prior |-> <<>>, result |-> <<>>]
NoHistory ==
    /\ history = <<>>
    /\ currentHistoryIndex = -1
    /\ isUndoRedoOperation = FALSE
    /\ storage = <<>>
    /\ lastCall = NoHistoryCall

\* the refs of useTreeTabs as the composable creates them: no tab, and ''
\* (here <<>>) for the id of the active tab
NoTabCall == [fn |-> "none", id |-> <<>>]
NoTabs ==
    /\ tabs = <<>>
    /\ activeTabId = <<>>
    /\ uuids = 0
    /\ tabCall = NoTabCall

Idle == NoWalk /\ NoHistory /\ isClient = TRUE /\ NoTabs

Init ==
    /\ input \in Inputs
    /\ pc = "start"
    /\ nodes = <<>>
    /\ path = <<>>
    /\ next = 1
    /\ error = NoError
    /\ call = NoCall
    /\ out = NoOut
    /\ calls = 0
    /\ run = 1
    /\ earlier = NoTree
    /\ heapBase = 0
    /\ allocated = 0
    /\ lastIndex = 0
    /\ Idle

\* the same start for the inputs whose names hold special units
InitNames ==
    /\ input \in NameInputs
    /\ pc = "start"
    /\ nodes = <<>>
    /\ path = <<>>
    /\ next = 1
    /\ error = NoError
    /\ call = NoCall
    /\ out = NoOut
    /\ calls = 0
    /\ run = 1
    /\ earlier = NoTree
    /\ heapBase = 0
    /\ allocated = 0
    /\ lastIndex = 0
    /\ Idle

\* parseInput up to its loop: the input check, splitInput, the root, the stack
ParseCall ==
    /\ pc = "start"
    /\ IF notNonEmptyString(input)
       THEN /\ pc' = "failed"
            /\ error' = [kind |-> "Input must be a non-empty string", name |-> <<>>]
            /\ UNCHANGED <<nodes, path, heapBase, allocated, lastIndex>>
       ELSE LET matched == globalMatch(input.text, lastIndex)
                structures == splitLines(matched.lines)
            IN  /\ nodes' = [i \in 0..Len(structures) |->
                                IF i = 0 THEN rootNode ELSE structures[i]]
                /\ lastIndex' = matched.lastIndex
                /\ heapBase' = allocated
                /\ allocated' = allocated + Len(structures) + 1
                /\ path' = <<0>>
                /\ pc' = "loop"
                /\ UNCHANGED error
    /\ UNCHANGED <<input, next, call, out, calls, run, earlier>>
    /\ UNCHANGED otherVars

\* one pass of the loop body, for the structure numbered next
ParseItem ==
    /\ pc = "loop"
    /\ next \in DOMAIN nodes
    /\ LET s == next
           lastIndent == nodes[top(path)].indentCount
           popped == popWhile(nodes, path, nodes[s].indentCount)
       IN  IF badJump(nodes[s].indentCount, lastIndent) \/ Len(popped) = 0
           THEN /\ pc' = "failed"
                /\ error' = [kind |-> "Bad indentation found at item: ",
                             name |-> nodes[s].name]
                /\ UNCHANGED <<nodes, path, next>>
           ELSE /\ nodes' = attach(nodes, top(popped), s)
                /\ path' = Append(popped, s)
                /\ next' = next + 1
                /\ UNCHANGED <<pc, error>>
    /\ UNCHANGED <<input, call, out, calls, run, earlier, heapBase, allocated, lastIndex>>
    /\ UNCHANGED otherVars

\* return root
ParseReturn ==
    /\ pc = "loop"
    /\ next \notin DOMAIN nodes
    /\ pc' = "parsed"
    /\ UNCHANGED <<input, nodes, path, next, error, call, out, calls,
                   run, earlier, heapBase, allocated, lastIndex>>
    /\ UNCHANGED otherVars

\* the test that lets null through: structure === undefined
isUndefined(structure) == structure = "undefined"

\* !structure, the first statement of generateTree, of formatTree and of each
\* serializer, for a structure that is an object ("root"), null or undefined
noStructure(structure) == structure \in {"null", "undefined"}

\* every child array turned round, as item.children.reverse() would leave it
structureReversed(heap) ==
    [n \in DOMAIN heap |-> [heap[n] EXCEPT !.children =
                                [i \in 1..Len(@) |-> @[Len(@) + 1 - i]]]]

\* the objects of the tree when a renderer or serializer returns: item.children
\* is read by index or iterated, names are read, the texts and the JSON values
\* are built from new arrays and objects, and no field of a FileStructure is
\* assigned
structureAfter(heap) == heap

\* a caller renders the parsed tree: generateTree(root, options)
CallGenerateTree ==
    /\ pc = "parsed"
    /\ calls < MaxCalls
    /\ calls' = calls + 1
    /\ \E options \in OptionSets :
          /\ call' = [fn |-> "generateTree", structure |-> "root", format |-> "",
                      options |-> options]
          /\ out' = IF noStructure("root") THEN Thrown("Structure is required", "")
                    ELSE generateTree(nodes, options)
    /\ nodes' = structureAfter(nodes)
    /\ pc' = "rendered"
    /\ UNCHANGED <<input, path, next, error, run, earlier, heapBase, allocated, lastIndex>>
    /\ UNCHANGED otherVars

\* the options the model passes to formatTree: a charset or none, and the three
\* other keys all absent or all set
FormatOptionSets == { o \in OptionSets : Cardinality(DOMAIN o \ {"charset"}) \in {0, 3} }

\* the ids that lead to generateTree
TreeFormatIds == {"ascii", "utf-8", "unknown-format"}

\* a caller renders the parsed tree: formatTree(root, format, options); the
\* serializers take no options, and the model passes them none
CallFormatTree ==
    /\ pc = "parsed"
    /\ calls < MaxCalls
    /\ calls' = calls + 1
    /\ \E format \in FormatIds, options \in FormatOptionSets :
          /\ format \notin TreeFormatIds => options = <<>>
          /\ call' = [fn |-> "formatTree", structure |-> "root", format |-> format,
                      options |-> options]
          /\ out' = IF noStructure("root") THEN Thrown("Structure is required", "")
                    ELSE formatTree(nodes, format, options)
    /\ nodes' = structureAfter(nodes)
    /\ pc' = "rendered"
    /\ UNCHANGED <<input, path, next, error, run, earlier, heapBase, allocated, lastIndex>>
    /\ UNCHANGED otherVars

\* the functions that take a structure
Renderers ==
    {"generateTree", "formatNestedJson", "formatArrayJson", "formatFlatJson",
     "formatYaml", "formatXml", "formatDot", "formatMarkdown", "formatTree"}

\* a caller that has no tree, parseInput having thrown, passes null or
\* undefined to one of the functions: the check throws; without it the first
\* read of a property of structure would throw a TypeError
CallWithoutStructure ==
    /\ pc = "failed"
    /\ \E fn \in Renderers, format \in FormatIds, structure \in {"null", "undefined"} :
          /\ fn # "formatTree" => format = "ascii"
          /\ call' = [fn |-> fn, structure |-> structure,
                      format |-> IF fn = "formatTree" THEN format ELSE "",
                      options |-> <<>>]
          /\ out' = IF noStructure(structure) THEN Thrown("Structure is required", "")
                    ELSE Thrown("TypeError", "")
    /\ pc' = "rejected"
    /\ UNCHANGED <<input, nodes, path, next, error, calls,
                   run, earlier, heapBase, allocated, lastIndex>>
    /\ UNCHANGED otherVars

\* the caller is done with the text (or the error) and keeps the tree, if
\* it has one
Discard ==
    /\ pc \in {"rendered", "rejected"}
    /\ pc' = IF pc = "rendered" THEN "parsed" ELSE "failed"
    /\ call' = NoCall
    /\ out' = NoOut
    /\ UNCHANGED <<input, nodes, path, next, error, calls,
                   run, earlier, heapBase, allocated, lastIndex>>
    /\ UNCHANGED otherVars

\* the caller, done with rendering, parses the same text again (the tree is
\* recomputed from the source whenever it is wanted) and keeps the tree it had
ParseAgain ==
    /\ pc = "parsed"
    /\ calls = MaxCalls
    /\ run < MaxParses
    /\ run' = run + 1
    /\ earlier' = [nodes |-> nodes, heapBase |-> heapBase]
    /\ pc' = "start"
    /\ nodes' = <<>>
    /\ path' = <<>>
    /\ next' = 1
    /\ UNCHANGED <<input, error, call, out, calls, heapBase, allocated, lastIndex>>
    /\ UNCHANGED otherVars

Next ==
    \/ ParseCall \/ ParseItem \/ ParseReturn \/ ParseAgain
    \/ CallGenerateTree \/ CallFormatTree \/ CallWithoutStructure \/ Discard

Spec == Init /\ [][Next]_vars

----------------------------------------------------------------------------
(* The while loop of generateTree, one pass at a time                       *)

\* the options of the calls that are followed pass by pass
WalkOptionSets == { o \in OptionSets : DOMAIN o \subseteq {"charset", "rootDot"} }

\* generateTree(root, options) up to the loop: the test of structure, the
\* merge of the options, const lines = [], const stack = [structure]
TreeCall ==
    /\ pc = "parsed"
    /\ calls = 0
    /\ ~noStructure("root")
    /\ \E options \in WalkOptionSets :
          call' = [fn |-> "generateTree", structure |-> "root", format |-> "",
                   options |-> options]
    /\ calls' = calls + 1
    /\ treeStack' = <<0>>
    /\ treeLines' = <<>>
    /\ visited' = <<>>
    /\ pc' = "walking"
    /\ UNCHANGED <<input, nodes, path, next, error, out, run, earlier,
                   heapBase, allocated, lastIndex>>
    /\ UNCHANGED <<historyVars, tabVars>>

\* one pass of while (stack.length > 0): pop, getAsciiLine (which may throw),
\* push the line if there is one, push the children last to first
TreePass ==
    /\ pc = "walking"
    /\ Len(treeStack) > 0
    /\ LET item == top(treeStack)
           mergedOptions == spread(defaultOptions, call.options)
           got == getAsciiLine(nodes, item, mergedOptions)
       IN  /\ visited' = Append(visited, item)
           /\ IF got.throws
              THEN /\ out' = Thrown("Unknown charset: ", got.charset)
                   /\ pc' = "rendered"
                   /\ treeStack' = SubSeq(treeStack, 1, Len(treeStack) - 1)
                   /\ UNCHANGED treeLines
              ELSE /\ treeLines' = IF got.hasLine THEN Append(treeLines, got.line)
                                   ELSE treeLines
                   /\ treeStack' = SubSeq(treeStack, 1, Len(treeStack) - 1)
                                      \o reversed(nodes[item].children)
                   /\ UNCHANGED <<out, pc>>
    /\ UNCHANGED <<input, nodes, path, next, error, call, calls, run, earlier,
                   heapBase, allocated, lastIndex>>
    /\ UNCHANGED <<historyVars, tabVars>>

\* return lines.join('\n')
TreeReturn ==
    /\ pc = "walking"
    /\ Len(treeStack) = 0
    /\ out' = Returned(Join(treeLines, <<LF>>))
    /\ pc' = "rendered"
    /\ UNCHANGED <<input, nodes, path, next, error, call, calls, run, earlier,
                   heapBase, allocated, lastIndex, treeVars>>
    /\ UNCHANGED <<historyVars, tabVars>>

NextTree ==
    \/ ParseCall \/ ParseItem \/ ParseReturn
    \/ TreeCall \/ TreePass \/ TreeReturn

\* generateTree is synchronous: once called, its loop runs pass after pass
\* until it returns or throws
SpecTree == Init /\ [][NextTree]_vars /\ WF_vars(TreePass) /\ WF_vars(TreeReturn)

----------------------------------------------------------------------------
(* useTreeHistory                                                           *)

\* the entries a history keeps at most (scaled down from the 1000 of the code)
MAX_HISTORY_SIZE == 3

\* what the editor hands to saveToHistory: content, selectionStart, selectionEnd
Edits == { <<<<"a">>, 1, 1>>, <<<<"a", "b">>, 2, 2>>, <<<<"a", "b">>, 0, 2>> }

RECURSIVE toString(_)
\* Number.prototype.toString of an integer
toString(n) ==
    IF n < 0 THEN <<"-">> \o toString(0 - n)
    ELSE IF n < 10 THEN <<<<"0", "1", "2", "3", "4", "5", "6", "7", "8", "9">>[n + 1]>>
    ELSE toString(n \div 10) \o toString(n % 10)

\* JSON.stringify of one HistoryState
stringifyState(state) ==
    <<"{">> \o Quote(<<"c", "o", "n", "t", "e", "n", "t">>) \o <<":">> \o Quote(state.content)
      \o <<",">> \o Quote(<<"c", "u", "r", "s", "o", "r", "P", "o", "s", "i", "t", "i", "o", "n">>)
      \o <<":", "{">> \o Quote(<<"s", "t", "a", "r", "t">>) \o <<":">>
      \o toString(state.cursorPosition.start)
      \o <<",">> \o Quote(<<"e", "n", "d">>) \o <<":">> \o toString(state.cursorPosition.end)
      \o <<"}", "}">>

\* JSON.stringify of the history array
stringifyHistory(states) ==
    <<"[">> \o Join([i \in 1..Len(states) |-> stringifyState(states[i])], <<",">>) \o <<"]">>

\* saveToStorage(key, text) on the localStorage store: nothing outside a
\* browser; setItem replaces the item of the key or adds it
saveToStorage(store, key, text) ==
    IF ~isClient THEN store
    ELSE [k \in DOMAIN store \cup {key} |-> IF k = key THEN text ELSE store[k]]

\* Array.prototype.slice(0, end)
sliceTo(seq, end) == SubSeq(seq, 1, end)

\* Array.prototype.slice(-n) for n > 0
sliceLast(seq, n) == IF Len(seq) <= n THEN seq ELSE SubSeq(seq, Len(seq) - n + 1, Len(seq))

\* a history that is never cut down
unlimited(states) == states

\* if (history.value.length > MAX_HISTORY_SIZE) history.value = history.value.slice(-MAX_HISTORY_SIZE)
limited(states) ==
    IF Len(states) > MAX_HISTORY_SIZE THEN sliceLast(states, MAX_HISTORY_SIZE) ELSE states

\* history.value[i], undefined (here <<>>) when i is no index of the array
stateAt(states, i) == IF i + 1 \in DOMAIN states THEN states[i + 1] ELSE <<>>

\* the body of saveToHistory(content, start, end), whoever calls it
saveToHistory(fn, content, start, end) ==
    IF isUndoRedoOperation
    THEN /\ isUndoRedoOperation' = FALSE
         /\ lastCall' = [fn |-> fn, textarea |-> FALSE, recorded |-> FALSE,
                         index |-> currentHistoryIndex,
                    prior |-> stateAt(history, currentHistoryIndex), result |-> <<>>]
         /\ UNCHANGED <<history, currentHistoryIndex, storage>>
    ELSE LET kept == IF currentHistoryIndex < Len(history) - 1
                     THEN sliceTo(history, currentHistoryIndex + 1) ELSE history
             pushed == Append(kept, [content |-> content,
                                     cursorPosition |-> [start |-> start, end |-> end]])
             states == limited(pushed)
             index == Len(states) - 1
         IN  /\ history' = states
             /\ currentHistoryIndex' = index
             /\ storage' = saveToStorage(
                               saveToStorage(storage, "editor-history", stringifyHistory(states)),
                               "editor-history-index", toString(index))
             /\ lastCall' = [fn |-> fn, textarea |-> FALSE, recorded |-> TRUE,
                             index |-> currentHistoryIndex,
                    prior |-> stateAt(history, currentHistoryIndex), result |-> <<>>]
             /\ UNCHANGED isUndoRedoOperation

\* the watcher of the editor (or any caller) saves a state
SaveToHistory ==
    /\ \E edit \in Edits : saveToHistory("saveToHistory", edit[1], edit[2], edit[3])
    /\ UNCHANGED <<treeCallVars, treeVars, isClient, tabVars>>

\* initHistory(initialContent)
InitHistory ==
    /\ \E edit \in Edits :
          IF Len(history) = 0
          THEN saveToHistory("initHistory", edit[1], 0, 0)
          ELSE /\ lastCall' = [fn |-> "initHistory", textarea |-> FALSE, recorded |-> FALSE,
                               index |-> currentHistoryIndex,
                    prior |-> stateAt(history, currentHistoryIndex),
                               result |-> <<>>]
               /\ UNCHANGED <<history, currentHistoryIndex, isUndoRedoOperation, storage>>
    /\ UNCHANGED <<treeCallVars, treeVars, isClient, tabVars>>

\* restoreState(state, textareaRef): [restores, result]; the result is null
\* (here <<>>) or holds the content and the selection that applySelection sets
restoreState(state, textareaRef) ==
    IF ~textareaRef THEN [restores |-> FALSE, result |-> <<>>]
    ELSE [restores |-> TRUE,
          result |-> <<[content |-> state.content,
                        applySelection |-> state.cursorPosition]>>]

\* the body of undo and of redo once the index may move to index
moveTo(fn, index, textareaRef) ==
    LET historyState == stateAt(history, index)
        restored == restoreState(historyState, textareaRef)
    IN  /\ currentHistoryIndex' = index
        /\ IF historyState # <<>>
           THEN /\ isUndoRedoOperation' = (isUndoRedoOperation \/ restored.restores)
                /\ storage' = saveToStorage(storage, "editor-history-index", toString(index))
                /\ lastCall' = [fn |-> fn, textarea |-> textareaRef, recorded |-> FALSE,
                                index |-> currentHistoryIndex,
                    prior |-> stateAt(history, currentHistoryIndex),
                                result |-> restored.result]
           ELSE /\ lastCall' = [fn |-> fn, textarea |-> textareaRef, recorded |-> FALSE,
                                index |-> currentHistoryIndex,
                    prior |-> stateAt(history, currentHistoryIndex),
                                result |-> <<>>]
                /\ UNCHANGED <<isUndoRedoOperation, storage>>
        /\ UNCHANGED history

\* a call that returns null and changes nothing
returnsNull(fn, textareaRef) ==
    /\ lastCall' = [fn |-> fn, textarea |-> textareaRef, recorded |-> FALSE,
                    index |-> currentHistoryIndex,
                    prior |-> stateAt(history, currentHistoryIndex), result |-> <<>>]
    /\ UNCHANGED <<history, currentHistoryIndex, isUndoRedoOperation, storage>>

\* undo(textareaRef), with a textarea or with null
Undo ==
    /\ \E textareaRef \in BOOLEAN :
          IF currentHistoryIndex > 0
          THEN moveTo("undo", currentHistoryIndex - 1, textareaRef)
          ELSE returnsNull("undo", textareaRef)
    /\ UNCHANGED <<treeCallVars, treeVars, isClient, tabVars>>

\* redo(textareaRef), with a textarea or with null
Redo ==
    /\ \E textareaRef \in BOOLEAN :
          IF currentHistoryIndex < Len(history) - 1
          THEN moveTo("redo", currentHistoryIndex + 1, textareaRef)
          ELSE returnsNull("redo", textareaRef)
    /\ UNCHANGED <<treeCallVars, treeVars, isClient, tabVars>>

\* useTreeHistory() has been called, on a server or in a browser; the parser
\* has not been called
NoParse ==
    /\ input = [type |-> "undefined", text |-> <<>>]
    /\ pc = "idle"
    /\ nodes = <<>>
    /\ path = <<>>
    /\ next = 1
    /\ error = NoError
    /\ call = NoCall
    /\ out = NoOut
    /\ calls = 0
    /\ run = 1
    /\ earlier = NoTree
    /\ heapBase = 0
    /\ allocated = 0
    /\ lastIndex = 0

HistoryInit ==
    /\ NoParse
    /\ NoWalk
    /\ NoHistory
    /\ isClient \in BOOLEAN
    /\ NoTabs

NextHistory == SaveToHistory \/ InitHistory \/ Undo \/ Redo

SpecHistory == HistoryInit /\ [][NextHistory]_vars

----------------------------------------------------------------------------
(* useTreeTabs                                                              *)

\* the ids uuidv4 hands out at most
MaxUuids == 4

\* the n-th id uuidv4 returns: the ids it returns are all different
uuid(n) == <<"uuid", n>>

\* the ids a caller may name: every id uuidv4 may return, and ''
TabIds == { uuid(n) : n \in 1..MaxUuids } \cup { <<>> }

\* the names renameTab is called with
NewNames == { <<"x">>, <<>> }

\* the options of a new tab
tabOptions == [format |-> "utf-8", fullPath |-> FALSE, trailingSlash |-> FALSE, rootDot |-> TRUE]

\* `Tree ${n}`
treeName(n) == <<"T", "r", "e", "e", SP>> \o toString(n)

\* the tab initializeTabs pushes
defaultTab(id) == [id |-> id, name |-> treeName(1), source |-> "mockInput", options |-> tabOptions]

\* the tab addTab pushes on a list of the given length
newTab(id, length) == [id |-> id, name |-> treeName(length + 1), source |-> "", options |-> tabOptions]

\* tabs.value.findIndex(tab => tab.id === id): the index from 0, or -1
findIndex(list, id) ==
    IF \E i \in 1..Len(list) : list[i].id = id
    THEN (CHOOSE i \in 1..Len(list) :
              list[i].id = id /\ \A j \in 1..(i - 1) : list[j].id # id) - 1
    ELSE -1

\* tabs.value.splice(index, 1)
splice(list, index) == SubSeq(list, 1, index) \o SubSeq(list, index + 2, Len(list))

\* the first remaining tab selected whichever tab was deleted
firstIndex(index) == 0

\* Math.max(0, index - 1)
newIndex(index) == IF index - 1 > 0 THEN index - 1 ELSE 0

\* initializeTabs()
InitializeTabs ==
    /\ IF Len(tabs) = 0
       THEN /\ uuids < MaxUuids
            /\ uuids' = uuids + 1
            /\ tabs' = Append(tabs, defaultTab(uuid(uuids + 1)))
            /\ activeTabId' = uuid(uuids + 1)
       ELSE UNCHANGED <<tabs, activeTabId, uuids>>
    /\ tabCall' = [fn |-> "initializeTabs", id |-> <<>>]
    /\ UNCHANGED <<treeCallVars, treeVars, historyVars>>

\* addTab()
AddTab ==
    /\ uuids < MaxUuids
    /\ uuids' = uuids + 1
    /\ tabs' = Append(tabs, newTab(uuid(uuids + 1), Len(tabs)))
    /\ activeTabId' = uuid(uuids + 1)
    /\ tabCall' = [fn |-> "addTab", id |-> <<>>]
    /\ UNCHANGED <<treeCallVars, treeVars, historyVars>>

\* renameTab(id, newName)
RenameTab ==
    /\ \E id \in TabIds, newName \in NewNames :
          /\ tabs' = [i \in 1..Len(tabs) |->
                         IF i = findIndex(tabs, id) + 1
                         THEN [tabs[i] EXCEPT !.name = newName] ELSE tabs[i]]
          /\ tabCall' = [fn |-> "renameTab", id |-> id]
    /\ UNCHANGED <<activeTabId, uuids>>
    /\ UNCHANGED <<treeCallVars, treeVars, historyVars>>

\* deleteTab(id), with the call of addTab it makes when no tab is left
DeleteTab ==
    /\ \E id \in TabIds :
          LET index == findIndex(tabs, id)
              spliced == splice(tabs, index)
          IN  /\ tabCall' = [fn |-> "deleteTab", id |-> id]
              /\ IF index = -1
                 THEN UNCHANGED <<tabs, activeTabId, uuids>>
                 ELSE IF id # activeTabId
                 THEN /\ tabs' = spliced
                      /\ UNCHANGED <<activeTabId, uuids>>
                 ELSE IF Len(spliced) > 0
                 THEN /\ tabs' = spliced
                      /\ activeTabId' = spliced[newIndex(index) + 1].id
                      /\ UNCHANGED uuids
                 ELSE /\ uuids < MaxUuids
                      /\ uuids' = uuids + 1
                      /\ tabs' = Append(spliced, newTab(uuid(uuids + 1), Len(spliced)))
                      /\ activeTabId' = uuid(uuids + 1)
    /\ UNCHANGED <<treeCallVars, treeVars, historyVars>>

\* setActiveTab(id) with the id of a tab of the list, as the tab bar calls it
SetActiveTab ==
    /\ \E i \in 1..Len(tabs) :
          /\ activeTabId' = tabs[i].id
          /\ tabCall' = [fn |-> "setActiveTab", id |-> tabs[i].id]
    /\ UNCHANGED <<tabs, uuids>>
    /\ UNCHANGED <<treeCallVars, treeVars, historyVars>>

\* useTreeTabs() has been called
TabsInit ==
    /\ NoParse
    /\ NoWalk
    /\ NoHistory
    /\ isClient = TRUE
    /\ NoTabs

NextTabs == InitializeTabs \/ AddTab \/ RenameTab \/ DeleteTab \/ SetActiveTab

SpecTabs == TabsInit /\ [][NextTabs]_vars

SpecNames == InitNames /\ [][Next]_vars

----------------------------------------------------------------------------
(* Vocabulary of the properties, stated on the tree without the renderers   *)

\* a tree has been returned
Parsed == pc \in {"parsed", "rendered"}

\* the objects other than the root
NonRoot == DOMAIN nodes \ {0}

\* the parent of a node that has one
ParentOf(n) == nodes[n].parent[1]

\* the message of the indentation error
BadIndentation == "Bad indentation found at item: "

\* the item about to be processed lies more than 2 deeper than the stack top
JumpAhead ==
    /\ pc = "loop"
    /\ next \in DOMAIN nodes
    /\ nodes[next].indentCount > nodes[top(path)].indentCount + 2

\* the step throws the indentation error naming the item, and no tree returns
ThrowsAtNext ==
    /\ pc' = "failed"
    /\ error' = [kind |-> BadIndentation, name |-> nodes[next].name]
    /\ UNCHANGED path

\* C1 as stated: an item more than 2 deeper than the node on top of the
\* ancestor stack, whatever that node is, makes parseInput throw
C1_AnyJumpThrows == [][JumpAhead => ThrowsAtNext]_vars

\* C1, amended: an item more than 2 deeper than the node on top of the
\* ancestor stack makes parseInput throw 'Bad indentation found at item:
\* <name>' naming it, provided that node is not the root; a failed parse
\* stays failed, whatever the caller then calls without a tree, so no tree
\* is returned
C1_JumpBelowRootThrows ==
    [][ /\ (JumpAhead /\ top(path) # 0 => ThrowsAtNext)
        /\ (pc \in {"failed", "rejected"} => pc' \in {"failed", "rejected"}) ]_vars

\* C1's case: the parse failed at an item 3 deeper than the item before it
C1_Witness ==
    /\ pc = "failed"
    /\ error.kind = BadIndentation
    /\ next \in DOMAIN nodes
    /\ top(path) # 0
    /\ nodes[next].indentCount > nodes[top(path)].indentCount + 2
    /\ error.name = nodes[next].name

RECURSIVE CountFirstInk(_, _, _)
\* the number of lines of text that hold a unit other than whitespace: the
\* units that are the first such unit since the last line break
CountFirstInk(text, i, seenInk) ==
    IF i > Len(text) THEN 0
    ELSE IF text[i] \in {LF, CR} THEN CountFirstInk(text, i + 1, FALSE)
    ELSE IF IsSpace(text[i]) \/ seenInk THEN CountFirstInk(text, i + 1, seenInk)
    ELSE 1 + CountFirstInk(text, i + 1, TRUE)

\* the number of places of n among the children of m
Places(m, n) == Cardinality({i \in 1..Len(nodes[m].children) : nodes[m].children[i] = n})

\* C2: a returned tree has exactly one root, named '.', with indentCount -1
\* and no parent; every other node is exactly once among the children of its
\* parent and nowhere else; children are in the order of their lines; and
\* there is one node per non-blank line, plus the root
C2_TreeShape ==
    Parsed =>
      /\ nodes[0].name = <<".">> /\ nodes[0].indentCount = -1 /\ nodes[0].parent = <<>>
      /\ \A n \in NonRoot :
           /\ nodes[n].parent # <<>>
           /\ ParentOf(n) \in DOMAIN nodes
           /\ \A m \in DOMAIN nodes : Places(m, n) = (IF m = ParentOf(n) THEN 1 ELSE 0)
      /\ \A m \in DOMAIN nodes : \A i, j \in 1..Len(nodes[m].children) :
           i < j => nodes[m].children[i] < nodes[m].children[j]
      /\ Cardinality(DOMAIN nodes) = CountFirstInk(input.text, 1, FALSE) + 1

\* C2's case: a returned tree with a node that has two children and a
\* grandchild of the root
C2_Witness ==
    /\ pc = "parsed"
    /\ \E m \in DOMAIN nodes : Len(nodes[m].children) >= 2
    /\ \E n \in NonRoot : ParentOf(n) # 0

----------------------------------------------------------------------------
(* The line-drawing output, stated from the tree                            *)

\* generateTree was called and returned a text
Rendered == pc = "rendered" /\ call.fn = "generateTree" /\ out.ok

\* the options as generateTree reads them
CallOptions == spread(defaultOptions, call.options)

\* (cur + text).split('\n'): the pieces between line feeds, the k-th piece
\* running from after the (k-1)-th line feed to before the k-th
SplitLF(text, cur) ==
    LET all == cur \o text
        feeds == {i \in 1..Len(all) : all[i] = LF}
        feed(k) == IF k = 0 THEN 0
                   ELSE IF k > Cardinality(feeds) THEN Len(all) + 1
                   ELSE CHOOSE i \in feeds : Cardinality({j \in feeds : j <= i}) = k
    IN  [k \in 1..(Cardinality(feeds) + 1) |-> SubSeq(all, feed(k - 1) + 1, feed(k) - 1)]

\* the lines of the output
OutLines == SplitLF(out.text, <<>>)

\* text is n lines joined by single line feeds, with none after the last
HasLines(text, n) ==
    IF n = 0 THEN text = <<>>
    ELSE Cardinality({i \in 1..Len(text) : text[i] = LF}) = n - 1

RECURSIVE PreOrder(_)
\* the nodes of the subtree of n, parents before children, children left to right
PreOrder(n) ==
    <<n>> \o Flatten([i \in 1..Len(nodes[n].children) |-> PreOrder(nodes[n].children[i])])

\* the non-root nodes in document order
Below == Tail(PreOrder(0))

RECURSIVE AncestorsBelowRoot(_)
\* the strict ancestors of n below the root, outermost first
AncestorsBelowRoot(n) ==
    IF ParentOf(n) = 0 THEN <<>>
    ELSE Append(AncestorsBelowRoot(ParentOf(n)), ParentOf(n))

\* no sibling of n comes after it
LastOfParent(n) ==
    LET sibs == nodes[ParentOf(n)].children
    IN  \A i \in 1..Len(sibs) : sibs[i] = n => i = Len(sibs)

\* the fragments of the charset of the call
Glyphs == IF CallOptions.charset = "ascii" THEN LINE_STRINGS.ascii ELSE LINE_STRINGS.utf8

\* the continuations of the ancestors of n, then its connector
DrawnPrefix(n) ==
    Flatten([i \in 1..Len(AncestorsBelowRoot(n)) |->
                IF LastOfParent(AncestorsBelowRoot(n)[i]) THEN Glyphs.EMPTY
                ELSE Glyphs.DIRECTORY])
      \o (IF LastOfParent(n) THEN Glyphs.LAST_CHILD ELSE Glyphs.CHILD)

\* C3: with rootDot true, the line of every non-root node is the blank or
\* vertical continuation of each strict ancestor below the root, outermost
\* first (blank when that ancestor is a last child), then the last-child or
\* non-last connector of the node, then its decorated name
C3_LineOfEachNode ==
    Rendered /\ CallOptions.rootDot =>
      LET lines == OutLines
          below == Below
      IN  /\ Len(lines) > Len(below)
          /\ \A k \in 1..Len(below) :
               lines[k + 1] = DrawnPrefix(below[k]) \o getName(nodes, below[k], CallOptions)

\* C3's case: a rendered tree in which a last child has a non-last child that
\* has a child of its own
C3_Witness ==
    /\ Rendered /\ CallOptions.rootDot
    /\ \E n \in NonRoot :
         /\ Len(AncestorsBelowRoot(n)) = 2
         /\ ~LastOfParent(AncestorsBelowRoot(n)[2])
         /\ LastOfParent(AncestorsBelowRoot(n)[1])

\* C4: generateTree emits one line per node with rootDot true and one per
\* non-root node with rootDot false, joined by single line feeds with none
\* after the last line
C4_LineCount ==
    Rendered =>
      HasLines(out.text,
               Cardinality(DOMAIN nodes) - (IF CallOptions.rootDot THEN 0 ELSE 1))

\* C4's case: a tree of four nodes rendered without its root
C4_Witness ==
    Rendered /\ ~CallOptions.rootDot /\ Cardinality(DOMAIN nodes) = 4

\* the lines of the same call made with rootDot true
LinesWithRoot ==
    SplitLF(generateTree(nodes, spread(call.options, [rootDot |-> TRUE])).text, <<>>)

\* C5: with rootDot false there is no line for the root, and the line of each
\* non-root node is its line with rootDot true less its first 4 units
C5_RootDotFalse ==
    Rendered /\ ~CallOptions.rootDot =>
      LET lines == OutLines
          withRoot == LinesWithRoot
          count == Cardinality(NonRoot)
      IN  /\ HasLines(out.text, count)
          /\ count > 0 =>
               /\ Len(lines) = count
               /\ Len(withRoot) = count + 1
               /\ \A k \in 1..count :
                    /\ Len(withRoot[k + 1]) >= 4
                    /\ lines[k] = SubSeq(withRoot[k + 1], 5, Len(withRoot[k + 1]))

\* C5's case: a tree with a grandchild of the root rendered without its root
C5_Witness ==
    /\ Rendered /\ ~CallOptions.rootDot
    /\ \E n \in NonRoot : ParentOf(n) # 0

\* the names of the strict ancestors of n below the root, joined by slashes
\* and followed by one; nothing for a child of the root
AncestorPath(n) ==
    IF ParentOf(n) = 0 THEN <<>>
    ELSE Join([i \in 1..Len(AncestorsBelowRoot(n)) |-> nodes[AncestorsBelowRoot(n)[i]].name],
              <<"/">>) \o <<"/">>

\* s begins with p
StartsWith(s, p) == Len(s) >= Len(p) /\ SubSeq(s, 1, Len(p)) = p

\* s ends with p
EndsWith(s, p) == Len(s) >= Len(p) /\ SubSeq(s, Len(s) - Len(p) + 1, Len(s)) = p

\* C6: with fullPath, the rendered name of every non-root node starts with
\* the names of all its ancestors from the root's child down to its parent,
\* joined by '/' and followed by '/', whatever the nodes are named
C6_FullPathOfAllAncestors ==
    Rendered /\ CallOptions.fullPath /\ CallOptions.rootDot =>
      LET lines == OutLines
          below == Below
      IN  \A k \in 1..Len(below) :
            StartsWith(lines[k + 1],
                       DrawnPrefix(below[k]) \o AncestorPath(below[k]) \o nodes[below[k]].name)

\* the name ends in a slash once its trailing whitespace is set aside
SlashBeforeTrailingSpace(name) ==
    LET inked == {i \in 1..Len(name) : ~IsSpace(name[i])}
    IN  inked # {} /\ name[CHOOSE i \in inked : \A j \in inked : j <= i] = "/"

\* the node is due a slash under the options of the call
DueSlash(n) ==
    /\ CallOptions.trailingDirSlash
    /\ Len(nodes[n].children) > 0
    /\ ~SlashBeforeTrailingSpace(nodes[n].name)

\* the lines of the same call made without the trailingDirSlash key
LinesWithoutSlash ==
    SplitLF(generateTree(nodes, [k \in DOMAIN call.options \ {"trailingDirSlash"} |->
                                    call.options[k]]).text, <<>>)

\* C7: the line of a node is its line without trailingDirSlash, which ends
\* in the node's name unchanged, plus one '/' if and only if the option is
\* on, the node has a child and its name does not already end in '/'
\* (trailing whitespace ignored)
C7_TrailingSlash ==
    Rendered =>
      LET skip == IF CallOptions.rootDot THEN 1 ELSE 0
          lines == OutLines
          plain == LinesWithoutSlash
          below == Below
      IN  \A k \in 1..Len(below) :
            /\ EndsWith(plain[k + skip], nodes[below[k]].name)
            /\ lines[k + skip] =
                 plain[k + skip] \o (IF DueSlash(below[k]) THEN <<"/">> ELSE <<>>)

\* C7's case: rendered with the option on, a parent named 'b/ ' (no slash
\* due) and a parent named 'a' (a slash due), and a childless node
C7_Witness ==
    /\ Rendered /\ CallOptions.trailingDirSlash
    /\ \E n \in NonRoot : Len(nodes[n].children) > 0 /\ nodes[n].name = <<"b", "/", SP>>
    /\ \E n \in NonRoot : DueSlash(n)
    /\ \E n \in NonRoot : Len(nodes[n].children) = 0

----------------------------------------------------------------------------
(* The dispatcher and the path serializers, stated from the tree            *)

\* formatTree was called with this format id
Formatted(format) == pc = "rendered" /\ call.fn = "formatTree" /\ call.format = format

\* the caller's options with the charset set to c, the other keys as passed
WithCharset(options, c) ==
    [k \in DOMAIN options \cup {"charset"} |-> IF k = "charset" THEN c ELSE options[k]]

\* what the dispatcher returns for the nine ids of FormatType
DesignatedOutput ==
    CASE call.format = "ascii" -> generateTree(nodes, WithCharset(call.options, "ascii"))
      [] call.format = "utf-8" -> generateTree(nodes, WithCharset(call.options, "utf-8"))
      [] call.format = "json-nested" -> Returned(formatNestedJson(nodes))
      [] call.format = "json-array" -> Returned(formatArrayJson(nodes))
      [] call.format = "json-flat" -> Returned(formatFlatJson(nodes))
      [] call.format = "yaml" -> Returned(formatYaml(nodes))
      [] call.format = "xml" -> Returned(formatXml(nodes))
      [] call.format = "dot" -> Returned(formatDot(nodes))
      [] call.format = "markdown" -> Returned(formatMarkdown(nodes))

Recognized(charset) == charset \in {"ascii", "utf-8"}

\* option key of the call, or its default when the caller left it out
OptionOr(key, default) ==
    IF key \in DOMAIN call.options THEN call.options[key] ELSE default

PathsOf(seq) == [i \in 1..Len(seq) |-> AncestorPath(seq[i]) \o nodes[seq[i]].name]

\* C9: the lines of formatDot are in ascending order, and there is one line,
\* a full path, per non-root node
C9_DotSortedOnePerNode ==
    Formatted("dot") =>
      LET lines == OutLines
      IN  /\ \A i, j \in 1..Len(lines) : i < j => ~StrLess(lines[j], lines[i])
          /\ HasLines(out.text, Cardinality(NonRoot))

\* the non-root nodes with children (directories) or without (files), in
\* document order
NodesWhere(withChildren) ==
    SelectSeq(Below, LAMBDA n : (Len(nodes[n].children) > 0) = withChildren)

\* C10: formatFlatJson lists each non-root node once, under 'directories' as
\* {path} if it has a child and under 'files' as {path, type: 'file'} if it
\* has none, path being the names of its ancestors below the root and its
\* own, joined by '/'
C10_FlatListsEveryNode ==
    Formatted("json-flat") =>
      out.text = Stringify(flatObject([files |-> PathsOf(NodesWhere(FALSE)),
                                       directories |-> PathsOf(NodesWhere(TRUE))]), 0)

----------------------------------------------------------------------------
(* The serializers, stated on the tree                                      *)

\* the name holds the three units d, i, r next to each other
HasDir(name) ==
    \E i \in 1..Len(name) :
        i + 2 <= Len(name) /\ name[i] = "d" /\ name[i + 1] = "i" /\ name[i + 2] = "r"

\* the children of n
Kids(n) == nodes[n].children

RECURSIVE NestedOf(_)
\* the nested representation with one entry per child, none merged
NestedOf(n) ==
    IF Len(Kids(n)) = 0
    THEN (IF HasDir(nodes[n].name) THEN JObject(<<>>) ELSE JNull)
    ELSE JObject([i \in 1..Len(Kids(n)) |-> <<nodes[Kids(n)[i]].name, NestedOf(Kids(n)[i])>>])

\* C11: the text of formatNestedJson is the object with the one key the
\* root's name, where a node with children is an object with one entry per
\* child, in order, keyed by the child's name and holding the child's own
\* representation, and a childless node is null, or {} if its name contains
\* 'dir'
C11_NestedEntryPerChild ==
    Formatted("json-nested") =>
      out = Returned(Stringify(JObject(<< <<nodes[0].name, NestedOf(0)>> >>), 0))

\* the number of ancestors of n, the root among them
Depth(n) == IF n = 0 THEN 0 ELSE Len(AncestorsBelowRoot(n)) + 1

\* the markdown line of a non-root node
MarkdownLine(n) ==
    Spaces(2 * (Depth(n) - 1)) \o <<"*", SP>> \o nodes[n].name
      \o (IF Len(Kids(n)) > 0 THEN <<"/">> ELSE <<>>) \o <<LF>>

\* C12: the text of formatMarkdown is one line per non-root node, in document
\* order: two spaces per level below the top level, then '* ' and the name,
\* then '/' if and only if the node has children; the root alone has no line
C12_MarkdownLinePerNode ==
    Formatted("markdown") =>
      out = Returned(Flatten([i \in 1..Len(Below) |-> MarkdownLine(Below[i])]))

\* the entity of a unit XML escapes, the unit itself otherwise
Entity(c) ==
    CASE c = "&" -> LITamp [] c = "<" -> LITlt [] c = ">" -> LITgt
      [] c = "\"" -> LITquot [] c = "'" -> LITapos [] OTHER -> <<c>>

\* the name with each unit replaced by its entity, in one pass
Escaped(name) == Flatten([i \in 1..Len(name) |-> Entity(name[i])])

\* the name an element or a JSON object shows for n: 'root' for the root,
\* the node's own name for every other node
ShownName(n) == IF n = 0 THEN LITroot ELSE nodes[n].name

RECURSIVE Element(_)
\* the element of n: self-closing file, or directory around its children's
\* elements, indented two spaces per level
Element(n) ==
    IF Len(Kids(n)) = 0
    THEN Spaces(2 * Depth(n)) \o LITfileOpen \o Escaped(ShownName(n)) \o LITfileClose
           \o <<LF>>
    ELSE Spaces(2 * Depth(n)) \o LITdirOpen \o Escaped(ShownName(n)) \o LITdirOpenEnd
           \o <<LF>>
           \o Flatten([i \in 1..Len(Kids(n)) |-> Element(Kids(n)[i])])
           \o Spaces(2 * Depth(n)) \o LITdirClose \o <<LF>>

\* C13: the text of formatXml is the declaration and then one top-level
\* element, the root's, named 'root'; every node has one element, a directory
\* whose tags enclose its children's elements in order if it has children and
\* a self-closing file if not, two spaces deeper per level, and every element
\* but the root's carries its node's own escaped name
C13_XmlElementPerNode ==
    Formatted("xml") => out = Returned(LITxmlDecl \o <<LF>> \o Element(0))

\* the five entities
Entities == {LITamp, LITlt, LITgt, LITquot, LITapos}

\* an entity is written in text from index i on
EntityAt(text, i) ==
    \E e \in Entities : i + Len(e) - 1 <= Len(text) /\ SubSeq(text, i, i + Len(e) - 1) = e

\* the unit an entity stands for
UnitOf(e) ==
    CASE e = LITamp -> "&" [] e = LITlt -> "<" [] e = LITgt -> ">"
      [] e = LITquot -> "\"" [] e = LITapos -> "'"

RECURSIVE Unescape(_)
\* the text with every entity, read from the left, replaced by its unit
Unescape(text) ==
    IF Len(text) = 0 THEN <<>>
    ELSE IF EntityAt(text, 1)
    THEN LET e == CHOOSE e \in Entities : StartsWith(text, e)
         IN  <<UnitOf(e)>> \o Unescape(Substring(text, Len(e)))
    ELSE <<text[1]>> \o Unescape(Tail(text))

\* the lines of the XML output that open an element, in their order
OpeningLines ==
    SelectSeq(OutLines, LAMBDA l :
        \E i \in 1..Len(l) : StartsWith(Substring(l, i - 1), <<"<", "f">>)
                               \/ StartsWith(Substring(l, i - 1), <<"<", "d">>))

\* the value of the name attribute of a line: what stands between the first
\* =" and the last double quote of the line
AttributeOf(l) ==
    LET from == CHOOSE i \in 1..Len(l) :
                    /\ l[i] = "=" /\ l[i + 1] = "\""
                    /\ \A j \in 1..(i - 1) : l[j] # "="
        to == CHOOSE i \in 1..Len(l) :
                    l[i] = "\"" /\ \A j \in (i + 1)..Len(l) : l[j] # "\""
    IN  SubSeq(l, from + 2, to - 1)

\* the name createXmlElement escapes for n
NameToEscape(n) == IF nodes[n].name = <<".">> THEN LITroot ELSE nodes[n].name

\* C14: the name attribute of every element holds none of < > " ', every &
\* in it starts one of the five entities, and replacing the entities by their
\* units gives back the name that was escaped
C14_EscapeRoundTrip ==
    Formatted("xml") =>
      LET lines == OpeningLines
          order == PreOrder(0)
      IN  /\ Len(lines) = Len(order)
          /\ \A k \in 1..Len(lines) :
                LET a == AttributeOf(lines[k])
                IN  /\ \A i \in 1..Len(a) : a[i] \notin {"<", ">", "\"", "'"}
                    /\ \A i \in 1..Len(a) : a[i] = "&" => EntityAt(a, i)
                    /\ Unescape(a) = NameToEscape(order[k])

\* an element is written for a name of units that are escaped and one for a
\* name that already reads as an entity
C14_Witness ==
    /\ Formatted("xml")
    /\ out.ok
    /\ input.text \in { <<"<", "&", "\"">>, <<"&", "a", "m", "p", ";">> }

\* the keys of the nested-JSON object of n, as indices into its children: a
\* name that several children bear is one key, at the place of the first of
\* them
KeyPlaces(n) ==
    SelectSeq([i \in 1..Len(Kids(n)) |-> i], LAMBDA i :
        \A j \in 1..(i - 1) : nodes[Kids(n)[j]].name # nodes[Kids(n)[i]].name)

\* the child whose representation the key of place i holds: the last child
\* that bears the name
Holder(n, i) ==
    LET same == {j \in 1..Len(Kids(n)) : nodes[Kids(n)[j]].name = nodes[Kids(n)[i]].name}
    IN  Kids(n)[CHOOSE j \in same : \A k \in same : k <= j]

RECURSIVE YamlEntry(_, _, _)
\* the YAML lines of the entry key: value, value being the nested-JSON
\* representation of n: 'key: null' for null, 'key:' and then the entries of
\* the object two spaces deeper (none for the empty object) otherwise
YamlEntry(key, n, indent) ==
    IF Len(Kids(n)) = 0 /\ ~HasDir(nodes[n].name)
    THEN Spaces(indent) \o key \o <<":", SP, "n", "u", "l", "l", LF>>
    ELSE Spaces(indent) \o key \o <<":", LF>>
           \o Flatten([p \in 1..Len(KeyPlaces(n)) |->
                  YamlEntry(nodes[Kids(n)[KeyPlaces(n)[p]]].name,
                            Holder(n, KeyPlaces(n)[p]), indent + 2)])

\* C15: the text of formatYaml is the entry of the nested-JSON object under
\* the key 'root' in place of the root's name: 'key:' and the nested entries
\* two spaces deeper for an object, 'key: null' for null, a line per entry,
\* the keys verbatim
C15_YamlOfNestedObject ==
    Formatted("yaml") => out = Returned(YamlEntry(LITroot, 0, 0))

\* YAML is written for a tree where an object holds an empty object and for
\* a tree where it holds null
C15_Witness ==
    /\ Formatted("yaml")
    /\ out.ok
    /\ \E m \in NonRoot : ParentOf(m) # 0 /\ Len(Kids(m)) = 0 /\ HasDir(nodes[m].name)
    /\ nodes[1].name = <<"\\", "\"">>

RECURSIVE TypedObject(_)
\* {name, type} of n, with the children's objects under 'children' if and
\* only if n has a child
TypedObject(n) ==
    LET head == << <<LITname, JString(ShownName(n))>>,
                   <<LITtype, JString(IF Len(Kids(n)) >= 1 THEN LITdirectory ELSE LITfile)>> >>
    IN  IF Len(Kids(n)) = 0 THEN JObject(head)
        ELSE JObject(head \o << <<LITchildren,
                 JArray([i \in 1..Len(Kids(n)) |-> TypedObject(Kids(n)[i])])>> >>)

\* C16: the text of formatArrayJson is the object of the root, every node
\* being {name, type} with type 'directory' if and only if it has a child
\* and 'file' otherwise, the directories alone carrying 'children', their
\* children's objects in order; the root is named 'root' and every other
\* node by its own name
C16_ArrayObjectPerNode ==
    Formatted("json-array") => out = Returned(Stringify(TypedObject(0), 0))

----------------------------------------------------------------------------
(* The errors                                                               *)

\* the call passed a charset that is neither 'ascii' nor 'utf-8'
UnknownCharsetPassed ==
    "charset" \in DOMAIN call.options /\ call.options.charset \notin {"ascii", "utf-8", ""}

C18_StructureRequired ==
    call.fn # "none" /\ call.structure \in {"null", "undefined"} =>
      /\ call.fn \in Renderers
      /\ ~out.ok
      /\ out.error = "Structure is required"
      /\ out.text = <<>>

\* formatTree was called with undefined and an id that is none of the nine
C18_Witness ==
    /\ pc = "rejected"
    /\ call.fn = "formatTree"
    /\ call.format = "unknown-format"
    /\ call.structure = "undefined"
    /\ out = Thrown("Structure is required", "")

\* the input is the empty string or no string
EmptyOrNoString == input.type # "string" \/ input.text = <<>>

\* C19: once parseInput has run on the empty string or on an input that is no
\* string, it has thrown 'Input must be a non-empty string', and there is no
\* tree
C19_InputRequired ==
    pc # "start" /\ EmptyOrNoString =>
      /\ pc \in {"failed", "rejected"}
      /\ error.kind = "Input must be a non-empty string"
      /\ nodes = <<>>

\* parseInput has thrown on the empty string
C19_Witness ==
    /\ pc = "failed"
    /\ input = [type |-> "string", text |-> <<>>]
    /\ error.kind = "Input must be a non-empty string"

----------------------------------------------------------------------------
(* The tree under the renderers                                             *)

RECURSIVE ParsedFrom(_, _, _)
\* the objects when the loop of parseInput has attached the i-th and all
\* later structures, for an input it accepts
ParsedFrom(heap, stack, i) ==
    IF i \notin DOMAIN heap THEN heap
    ELSE LET popped == popWhile(heap, stack, heap[i].indentCount)
         IN  ParsedFrom(attach(heap, top(popped), i), Append(popped, i), i + 1)

\* the objects as parseInput left them when it returned the tree
AsParsed ==
    LET structures == splitInput(input.text)
    IN  ParsedFrom([i \in 0..Len(structures) |-> IF i = 0 THEN rootNode ELSE structures[i]],
                   <<0>>, 1)

\* what the call of the state returns when it is the first on the tree
FirstCall ==
    IF call.fn = "generateTree" THEN generateTree(AsParsed, call.options)
    ELSE formatTree(AsParsed, call.format, call.options)

\* C20: after any sequence of calls of generateTree and formatTree (and
\* through it the seven serializers) on a tree, the name, children,
\* indentCount and parent of every node are as parseInput left them, and a
\* call returns what it returns as the first call on the tree
C20_TreeUntouched ==
    Parsed =>
      /\ nodes = AsParsed
      /\ pc = "rendered" => out = FirstCall

\* a second call, of formatDot, which sorts what it collected, on a tree
\* whose top-level names are not in ascending order
C20_Witness ==
    /\ Formatted("dot")
    /\ calls = MaxCalls
    /\ Len(Kids(0)) >= 2
    /\ nodes[Kids(0)[1]].name = <<"b", "/", SP>>
    /\ nodes[Kids(0)[2]].name = <<"a">>
    /\ out.ok

(***************************************************************************)
(* Parsing the same text twice                                              *)
(***************************************************************************)

\* a tree as its caller holds it: the heap and where its objects lie
Current == [nodes |-> nodes, heapBase |-> heapBase]

\* the objects (root and nodes) of a tree
Objects(tree) == {tree.heapBase + i : i \in DOMAIN tree.nodes}

\* two heaps of one shape: as many nodes, and the i-th created node of the
\* one has the name, the indentCount, the parent and the children, in order,
\* of the i-th created node of the other
SameShape(a, b) ==
    /\ DOMAIN a = DOMAIN b
    /\ \A i \in DOMAIN a :
         /\ a[i].name = b[i].name
         /\ a[i].indentCount = b[i].indentCount
         /\ a[i].parent = b[i].parent
         /\ a[i].children = b[i].children

\* C21: parseInput is deterministic: the tree a second call returns for the
\* same text has the shape of the tree the first call returned (node count,
\* names, indentCounts, nesting, order of children), and no object of the
\* one is an object of the other
C21_ParseDeterministic ==
    (run >= 2 /\ pc = "parsed") =>
      /\ SameShape(nodes, earlier.nodes)
      /\ Objects(Current) \cap Objects(earlier) = {}

\* a second parse of a text of two top-level items and a nested one
C21_Witness ==
    /\ run = 2
    /\ pc = "parsed"
    /\ Len(Kids(0)) >= 2
    /\ \E n \in NonRoot : ParentOf(n) # 0
    /\ earlier.nodes # <<>>

(***************************************************************************)
(* Blank lines                                                              *)
(***************************************************************************)

RECURSIVE parseLoop(_, _, _)
\* the for loop of parseInput from the structure numbered i on, as one
\* computation: what parseInput returns or throws
parseLoop(heap, stack, i) ==
    IF i \notin DOMAIN heap THEN [ok |-> TRUE, nodes |-> heap, error |-> NoError]
    ELSE LET lastIndent == heap[top(stack)].indentCount
             popped == popWhile(heap, stack, heap[i].indentCount)
         IN  IF badJump(heap[i].indentCount, lastIndent) \/ Len(popped) = 0
             THEN [ok |-> FALSE, nodes |-> <<>>,
                   error |-> [kind |-> "Bad indentation found at item: ",
                              name |-> heap[i].name]]
             ELSE parseLoop(attach(heap, top(popped), i), Append(popped, i), i + 1)

\* parseInput as one computation
parseInput(value) ==
    IF notNonEmptyString(value)
    THEN [ok |-> FALSE, nodes |-> <<>>,
          error |-> [kind |-> "Input must be a non-empty string", name |-> <<>>]]
    ELSE LET structures == splitInput(value.text)
         IN  parseLoop([i \in 0..Len(structures) |->
                           IF i = 0 THEN rootNode ELSE structures[i]], <<0>>, 1)

\* parseInput has thrown
Failed == pc \in {"failed", "rejected"}

\* the call of parseInput is over and its caller has done nothing since
Over == pc \in {"parsed", "failed"} /\ calls = 0

\* what the call of the state returned or threw
Outcome ==
    IF Parsed THEN [ok |-> TRUE, nodes |-> nodes, error |-> NoError]
    ELSE [ok |-> FALSE, nodes |-> <<>>, error |-> error]

\* the unit at position i lies in a whitespace-only line: it is no line
\* terminator, and every unit it is joined to by units that are no line
\* terminators is whitespace
InBlankLine(text, i) ==
    /\ text[i] \notin {LF, CR}
    /\ \A j \in 1..Len(text) :
         (\A k \in 1..Len(text) :
             ((i <= k /\ k <= j) \/ (j <= k /\ k <= i)) => text[k] \notin {LF, CR})
           => IsSpace(text[j])

\* the text with its whitespace-only lines removed (the line terminators stay)
WithoutBlankLines(text) ==
    LET keep == {i \in 1..Len(text) : ~InBlankLine(text, i)}
        nth(k) == CHOOSE i \in keep : Cardinality({j \in keep : j <= i}) = k
    IN  [k \in 1..Cardinality(keep) |-> text[nth(k)]]

\* every line of the text is whitespace
AllBlank(text) == \A i \in 1..Len(text) : IsSpace(text[i])

\* C22: a non-empty input whose lines are all whitespace is not an error:
\* parseInput returns a root with zero children; and for every input from
\* which the removal of the whitespace-only lines leaves a non-empty text,
\* parseInput returns for the input the tree (or throws the error) that it
\* returns (or throws) for the text with those lines removed
C22_BlankLinesDiscarded ==
    (Over /\ input.type = "string" /\ input.text # <<>>) =>
      /\ AllBlank(input.text) =>
           /\ Parsed
           /\ DOMAIN nodes = {0}
           /\ nodes[0] = rootNode
      /\ LET stripped == WithoutBlankLines(input.text)
         IN  stripped # <<>> => Outcome = parseInput([type |-> "string", text |-> stripped])

\* a parsed text with a whitespace-only line between items
C22_Witness ==
    /\ Over
    /\ Parsed
    /\ WithoutBlankLines(input.text) # input.text
    /\ Cardinality(NonRoot) >= 2
    /\ \E n \in NonRoot : ParentOf(n) # 0

\* C22 as stated: for any input, the parsed tree equals the tree parsed from
\* the same input with the whitespace-only lines removed
C22_EqualsTreeOfStrippedInput ==
    (Over /\ input.type = "string" /\ input.text # <<>>) =>
      Outcome = parseInput([type |-> "string", text |-> WithoutBlankLines(input.text)])

(***************************************************************************)
(* The parent of an item                                                    *)
(***************************************************************************)

\* the loop body has attached the structure numbered next in this step
Attaches == pc = "loop" /\ next' = next + 1

\* the items before item s (the root, numbered 0, among them) whose
\* indentCount is strictly smaller than that of s
SmallerBefore(s) == {m \in 0..(s - 1) : nodes[m].indentCount < nodes[s].indentCount}

\* the nearest of them
NearestSmaller(s) == CHOOSE m \in SmallerBefore(s) : \A k \in SmallerBefore(s) : k <= m

\* C23: each item that parseInput attaches gets for parent the nearest
\* preceding item whose indentCount is strictly smaller than its own, the
\* root when no preceding item has one, and is appended as the last child
\* of that parent; nothing else of the tree changes
C23_ParentIsNearestSmaller ==
    [][Attaches =>
         LET s == next
             p == NearestSmaller(s)
         IN  /\ SmallerBefore(s) # {}
             /\ nodes'[s].parent = <<p>>
             /\ nodes'[p].children = Append(nodes[p].children, s)
             /\ \A m \in DOMAIN nodes \ {p} : nodes'[m].children = nodes[m].children
             /\ \A m \in DOMAIN nodes \ {s} : nodes'[m].parent = nodes[m].parent]_vars

\* an item has just been attached below an item that is neither the root nor
\* the item before it, and has a sibling before it
C23_Witness ==
    /\ pc = "loop"
    /\ next > 1
    /\ ParentOf(next - 1) \notin {0, next - 2}
    /\ Len(nodes[ParentOf(next - 1)].children) >= 2

(***************************************************************************)
(* The jump rule and the first item                                         *)
(***************************************************************************)

\* the loop body is about to run for the structure numbered next
AtItem == pc = "loop" /\ next \in DOMAIN nodes

\* C24: when the loop body runs for an item, the top of the ancestor stack is
\* the item before it, and so is the root exactly for the first item; the
\* first item is attached to the root whatever its indentCount; every later
\* item is rejected if and only if its indentCount exceeds that of the item
\* before it by more than 2
C24_JumpRuleSkippedAtRoot ==
    [][AtItem =>
         /\ top(path) = next - 1
         /\ (top(path) = 0) <=> (next = 1)
         /\ next = 1 =>
              /\ pc' = "loop"
              /\ nodes'[1].parent = <<0>>
              /\ nodes'[0].children = <<1>>
         /\ next > 1 =>
              (pc' = "failed" <=> nodes[next].indentCount > nodes[next - 1].indentCount + 2)]_vars

\* a first item of indentCount 3 is in the tree and a later item, two deeper
\* than the item before it, has been attached
C24_Witness ==
    /\ pc = "loop"
    /\ next > 3
    /\ nodes[1].indentCount = 3
    /\ nodes[1].parent = <<0>>
    /\ nodes[3].indentCount = nodes[2].indentCount + 2

(***************************************************************************)
(* The ancestor stack                                                       *)
(***************************************************************************)

\* the stack is a chain of parents from the root at the bottom
ParentChain(stack) ==
    /\ Len(stack) >= 1
    /\ stack[1] = 0
    /\ \A i \in 2..Len(stack) :
         /\ nodes[stack[i]].parent = <<stack[i - 1]>>
         /\ nodes[stack[i - 1]].indentCount < nodes[stack[i]].indentCount

\* C25: at every step of the loop the ancestor stack is the chain of parents
\* from the root, at the bottom, to the node attached last, on top, with
\* strictly increasing indentCount; the pops for the next item leave the
\* root, so the stack is never empty and the test path.length === 0 that
\* guards the second throw of 'Bad indentation' never succeeds
C25_StackIsParentChain ==
    pc = "loop" =>
      /\ ParentChain(path)
      /\ top(path) = next - 1
      /\ next \in DOMAIN nodes =>
           LET popped == popWhile(nodes, path, nodes[next].indentCount)
           IN  /\ Len(popped) # 0
               /\ popped[1] = 0
               /\ ParentChain(popped)

\* the stack holds the root and three nodes after an item was popped
C25_Witness ==
    /\ pc = "loop"
    /\ Len(path) = 4
    /\ next = 5

(***************************************************************************)
(* Indentation along the tree                                               *)
(***************************************************************************)

\* the nodes that have been attached
Attached == {n \in NonRoot : nodes[n].parent # <<>>}

\* C27: in the tree parseInput builds and returns, every node whose parent
\* is not the root has an indentCount 1 or 2 above its parent's; a child of
\* the root has any indentCount from 0 on; and the indentCounts of the
\* children of one parent do not increase in child order
C27_IndentAlongTree ==
    pc \in {"loop", "parsed", "rendered"} =>
      /\ \A n \in Attached :
           /\ nodes[n].indentCount >= 0
           /\ ParentOf(n) # 0 =>
                nodes[n].indentCount - nodes[ParentOf(n)].indentCount \in {1, 2}
      /\ \A p \in DOMAIN nodes : \A i, j \in 1..Len(nodes[p].children) :
           i < j => nodes[nodes[p].children[i]].indentCount
                      >= nodes[nodes[p].children[j]].indentCount

\* a returned tree with a top-level item of indentCount 3 and, below a later
\* top-level item, a child two deeper than it followed by a child one deeper
C27_Witness ==
    /\ pc = "parsed"
    /\ \E n \in NonRoot : ParentOf(n) = 0 /\ nodes[n].indentCount = 3
    /\ \E p \in NonRoot :
         /\ Len(Kids(p)) = 2
         /\ nodes[Kids(p)[1]].indentCount = nodes[p].indentCount + 2
         /\ nodes[Kids(p)[2]].indentCount = nodes[p].indentCount + 1

(***************************************************************************)
(* The traversal of generateTree                                            *)
(***************************************************************************)

\* the nodes in the order of their lines in the input: the root, then the
\* k-th node for the k-th line that splitInput kept
DocumentOrder == [k \in 1..Cardinality(DOMAIN nodes) |-> k - 1]

\* a is the beginning of b
StartOf(a, b) == Len(a) <= Len(b) /\ a = SubSeq(b, 1, Len(a))

\* the loop of generateTree is running
Walking == pc = "walking"

\* the loop of generateTree, followed pass by pass, has returned or thrown
Walked == pc = "rendered" /\ visited # <<>>

\* while the loop runs, the items popped so far are the beginning of the
\* pre-order of the tree, and the stack holds what is left of it, top first
WalkInPreOrder ==
    Walking =>
      /\ StartOf(visited, PreOrder(0))
      /\ visited \o Flatten([i \in 1..Len(treeStack) |->
                                PreOrder(treeStack[Len(treeStack) + 1 - i])])
           = PreOrder(0)

\* when the loop has returned, it has popped every node once, in pre-order,
\* which is the order of the lines of the input; the lines it returns are
\* the lines of the nodes in that order, the line of the k-th node ending
\* with the name on the k-th non-blank line of the input
WalkedAll ==
    (Walked /\ out.ok) =>
      LET mergedOptions == spread(defaultOptions, call.options)
          offset == IF flag(mergedOptions, "rootDot") THEN 1 ELSE 0
          kept == keptLines(input.text)
      IN  /\ visited = PreOrder(0)
          /\ visited = DocumentOrder
          /\ \A n \in DOMAIN nodes : Cardinality({i \in 1..Len(visited) : visited[i] = n}) = 1
          /\ Len(treeLines) = Len(kept) + offset
          /\ \A k \in 1..Len(kept) :
               /\ treeLines[k + offset] = getAsciiLine(nodes, k, mergedOptions).line
               /\ EndsWith(treeLines[k + offset], stripLeading(kept[k]))
          /\ out = generateTree(nodes, call.options)

\* C26: the explicit-stack loop of generateTree terminates on every parsed
\* tree (it returns, or throws for an unknown charset), and visits every
\* node exactly once, in pre-order with children left to right, so that the
\* lines emitted for the nodes other than the root are in the order of the
\* non-blank lines of the input
C26_WalkTerminatesInPreOrder ==
    /\ []WalkInPreOrder
    /\ []WalkedAll
    /\ (Walking ~> Walked)

\* the loop has returned the lines of a tree of four nodes with two
\* top-level items, the first of which has two children
C26_Witness ==
    /\ Walked
    /\ out.ok
    /\ Len(visited) = 5
    /\ Len(Kids(0)) = 2
    /\ Len(Kids(1)) = 2

(***************************************************************************)
(* The bounds of the history                                                *)
(***************************************************************************)

\* the last call recorded a state
Recorded == lastCall.recorded

\* the history is within its size and the index within the history
HistoryInBounds ==
    /\ Len(history) <= MAX_HISTORY_SIZE
    /\ IF Len(history) = 0 THEN currentHistoryIndex = -1
       ELSE 0 <= currentHistoryIndex /\ currentHistoryIndex <= Len(history) - 1

\* a call that records a state on a full history whose last entry is current
\* drops the oldest entry, puts the new state last and makes it current
OldestDropped ==
    (lastCall'.recorded /\ currentHistoryIndex = MAX_HISTORY_SIZE - 1) =>
      /\ Len(history') = MAX_HISTORY_SIZE
      /\ \A i \in 1..(MAX_HISTORY_SIZE - 1) : history'[i] = history[i + 1]
      /\ \E edit \in Edits :
           /\ history'[MAX_HISTORY_SIZE].content = edit[1]
           /\ lastCall'.fn = "saveToHistory" =>
                history'[MAX_HISTORY_SIZE].cursorPosition = [start |-> edit[2], end |-> edit[3]]
      /\ currentHistoryIndex' = MAX_HISTORY_SIZE - 1

\* C28: from the empty history, after any sequence of calls of
\* saveToHistory, undo and redo, with or without a textarea, the history has
\* at most MAX_HISTORY_SIZE entries and currentHistoryIndex is -1 when the
\* history is empty and from 0 to history.length - 1 otherwise; a save that
\* would exceed the size drops the oldest entries and leaves the index at
\* the newest entry
C28_HistoryInBounds == []HistoryInBounds /\ [][OldestDropped]_vars

\* a save has just dropped the oldest entry of a full history
C28_Witness ==
    /\ lastCall.fn = "saveToHistory"
    /\ Recorded
    /\ lastCall.index = MAX_HISTORY_SIZE - 1
    /\ Len(history) = MAX_HISTORY_SIZE
    /\ currentHistoryIndex = MAX_HISTORY_SIZE - 1

(***************************************************************************)
(* A recorded save, then undo or redo                                       *)
(***************************************************************************)

\* what undo and redo return when they restore state
Restored(state) ==
    <<[content |-> state.content, applySelection |-> state.cursorPosition]>>

\* a call that records a state keeps the entries up to the current index
\* (less the oldest when the size is exceeded), puts the new state last and
\* makes it current
RecordsLast ==
    lastCall'.recorded =>
      LET dropped == (currentHistoryIndex + 2) - Len(history')
      IN  /\ dropped \in {0, 1}
          /\ dropped = 1 <=> currentHistoryIndex + 2 > MAX_HISTORY_SIZE
          /\ \A i \in 1..(Len(history') - 1) : history'[i] = history[i + dropped]
          /\ \E edit \in Edits : history'[Len(history')].content = edit[1]
          /\ currentHistoryIndex' = Len(history') - 1

\* a redo right after a recorded save returns null
RedoAfterSave == (Recorded /\ lastCall'.fn = "redo") => lastCall'.result = <<>>

\* an undo right after a recorded save that left two entries or more returns
\* the state that was current before the save
UndoAfterSave ==
    (Recorded /\ lastCall'.fn = "undo" /\ Len(history) >= 2) =>
      lastCall'.result = Restored(lastCall.prior)

\* C29: a call of saveToHistory that is recorded discards every entry after
\* the current index, appends the new state as the last entry and makes it
\* current, so that a redo right after it returns null and an undo right
\* after it, when the history has two entries or more, returns the state
\* that was current before the save
C29_SaveThenUndoRedo == [][RecordsLast /\ RedoAfterSave /\ UndoAfterSave]_vars

\* the same with the undo given a textarea, as handleKeyDown gives it
C29_SaveThenUndoWithTextarea ==
    [][RecordsLast /\ RedoAfterSave /\ (lastCall'.textarea => UndoAfterSave)]_vars

\* undo(null) right after a recorded save: the index has moved back, the
\* call has returned null, and the next save will not be swallowed
C29_UndoWithoutTextarea ==
    /\ lastCall.fn = "undo"
    /\ ~lastCall.textarea
    /\ lastCall.result = <<>>
    /\ currentHistoryIndex = lastCall.index - 1
    /\ ~isUndoRedoOperation
    /\ Len(history) >= 2

(***************************************************************************)
(* The active tab                                                           *)
(***************************************************************************)

\* the positions (from 1) of the tabs that bear the id
TabsOf(id) == {i \in 1..Len(tabs) : tabs[i].id = id}

\* there is a tab, and the active id is the id of exactly one tab
OneActiveTab == Len(tabs) > 0 /\ Cardinality(TabsOf(activeTabId)) = 1

\* the step is a call of deleteTab with the id of the active tab
DeletesActive == tabCall'.fn = "deleteTab" /\ tabCall'.id = activeTabId /\ TabsOf(activeTabId) # {}

\* deleting the active tab removes it and activates the tab that stood
\* before it, the first remaining tab when it stood first; deleting the only
\* tab leaves one tab, with an id no tab has had, and activates it
ActiveAfterDelete ==
    DeletesActive =>
      LET i == CHOOSE i \in TabsOf(activeTabId) : TRUE
      IN  IF Len(tabs) > 1
          THEN /\ tabs' = [k \in 1..(Len(tabs) - 1) |-> IF k < i THEN tabs[k] ELSE tabs[k + 1]]
               /\ activeTabId' = IF i > 1 THEN tabs[i - 1].id ELSE tabs[2].id
          ELSE /\ Len(tabs') = 1
               /\ tabs'[1].id \notin {uuid(n) : n \in 1..uuids}
               /\ tabs'[1].name = treeName(1)
               /\ activeTabId' = tabs'[1].id

\* C30: once initializeTabs or addTab has created a tab, after any sequence
\* of addTab, renameTab, deleteTab of any id and setActiveTab of the id of an
\* existing tab, the list of tabs is not empty and activeTabId is the id of
\* exactly one tab of the list; deleting the active tab activates the tab
\* before it (the first remaining tab when there is none before it), and
\* deleting the only tab creates and activates a fresh one
C30_OneActiveTab == [](uuids > 0 => OneActiveTab) /\ [][ActiveAfterDelete]_vars

\* the third of three tabs was active and has just been deleted
C30_Witness ==
    /\ tabCall.fn = "deleteTab"
    /\ tabCall.id = uuid(3)
    /\ Len(tabs) = 2
    /\ tabs[1].id = uuid(1)
    /\ tabs[2].id = uuid(2)
    /\ activeTabId = uuid(2)

====
